---- MODULE Spec2Model ----
(***************************************************************************)
(* TraceFilterParser (mlflow/utils/databricks_sql_filter.py): the filter   *)
(* DSL parser that turns "status = 'OK' AND name LIKE '%x%'" into SQL      *)
(* condition texts and a parameter map.                                    *)
(*                                                                         *)
(* Text is a sequence of one-character strings, so that the scanner and    *)
(* the two regular expressions of the parser are modelled character by     *)
(* character, with Python's backtracking order.                            *)
(***************************************************************************)
EXTENDS Integers, Sequences, FiniteSets, TLC

VARIABLES
    param_counter,   \* TraceFilterParser.param_counter
    first_param,     \* param_counter when the last parse call began
    pc,              \* "idle": no call in progress; "returned": parse has returned or raised
    written,         \* the clauses the caller wrote, of which filter_string is the text
    filter_string,   \* the argument of the last parse call
    conditions,      \* the list of condition texts parse returned
    params,          \* the parameter map parse returned
    error,           \* "" or the message of the MlflowException parse raised
    bucket_call,     \* the time bucketing function last called, "" for none
    time_bucket,     \* its time_bucket argument
    timestamp_ms,    \* its timestamp_ms argument (0 where it has none)
    offset_ms,       \* its offset_ms argument, or the UTC offset of its timezone
    bucket_result,   \* what it returned: [n |-> a number, s |-> a text]
    bucket_error,    \* "" or the exception it raised
    traces,          \* the traces of the store, counted by the predicates they match
    corr_call,       \* the correlation function last called on the store, and its setting
    corr_result,     \* what it returned
    slice,           \* get_correlations_for_filter: total_count and filter_count of the store
    value_rows,      \* the tag values discovered among the filter's traces, in discovery order
    ranking,         \* the limit of the last get_correlations_for_filter call and its result
    sample,          \* the sample of tag values handed to infer_data_type
    data_type,       \* what infer_data_type returned for it, "" before the call
    scope_traces,    \* discover_dimensions: the number of traces in the experiments and time range
    tag_rows,        \* the (key, value) tags on those traces
    dimensions,      \* what discover_dimensions returned
    spark_session,   \* DatabricksSqlStore._spark_session: 0 for None, else the number of the session held
    sessions,        \* every Spark session created so far: "live", "stopped" or "stop_raised"
    table_cache,     \* the lru_cache of _get_trace_table_for_experiment, least recently used first
    api_calls,       \* how many times the monitors API was called for each experiment id
    store_call,      \* the store method last called and its arguments
    store_result     \* what it returned or raised, and what it did on the way

parser_vars ==
    <<param_counter, first_param, pc, written, filter_string, conditions, params, error>>

bucket_vars ==
    <<bucket_call, time_bucket, timestamp_ms, offset_ms, bucket_result, bucket_error>>

corr_vars == <<traces, corr_call, corr_result>>

rank_vars == <<slice, value_rows, ranking>>

infer_vars == <<sample, data_type>>

discover_vars == <<scope_traces, tag_rows, dimensions>>

store_vars == <<spark_session, sessions, table_cache, api_calls, store_call, store_result>>

vars == <<parser_vars, bucket_vars, corr_vars, rank_vars, infer_vars, discover_vars, store_vars>>

\* the variables that the functions of one part of the program leave alone
except_parser == <<bucket_vars, corr_vars, rank_vars, infer_vars, discover_vars, store_vars>>

except_bucket == <<parser_vars, corr_vars, rank_vars, infer_vars, discover_vars, store_vars>>

except_corr == <<parser_vars, bucket_vars, rank_vars, infer_vars, discover_vars, store_vars>>

except_rank == <<parser_vars, bucket_vars, corr_vars, infer_vars, discover_vars, store_vars>>

except_infer == <<parser_vars, bucket_vars, corr_vars, rank_vars, discover_vars, store_vars>>

except_discover == <<parser_vars, bucket_vars, corr_vars, rank_vars, infer_vars, store_vars>>

except_store == <<parser_vars, bucket_vars, corr_vars, rank_vars, infer_vars, discover_vars>>

----------------------------------------------------------------------------
(* Characters and Python's str helpers *)

Whitespace == {" ", "\t", "\n"}

\* the backquote character (a TLA+ string cannot hold it)
Backtick == "BACKTICK"

LowerLetters == <<"a", "b", "c", "d", "e", "f", "g", "h", "i", "j", "k", "l", "m", "n", "o", "p", "q", "r", "s", "t", "u", "v", "w", "x", "y", "z">>

UpperLetters == <<"A", "B", "C", "D", "E", "F", "G", "H", "I", "J", "K", "L", "M", "N", "O", "P", "Q", "R", "S", "T", "U", "V", "W", "X", "Y", "Z">>

DigitChars == <<"0", "1", "2", "3", "4", "5", "6", "7", "8", "9">>

IsDigit(c) == \E i \in DOMAIN DigitChars : DigitChars[i] = c

DigitValue(c) == (CHOOSE i \in DOMAIN DigitChars : DigitChars[i] = c) - 1

\* str.upper() on one character
UpperChar(c) ==
    IF \E i \in DOMAIN LowerLetters : LowerLetters[i] = c
    THEN UpperLetters[CHOOSE i \in DOMAIN LowerLetters : LowerLetters[i] = c]
    ELSE c

\* str.lower() on one character
LowerChar(c) ==
    IF \E i \in DOMAIN UpperLetters : UpperLetters[i] = c
    THEN LowerLetters[CHOOSE i \in DOMAIN UpperLetters : UpperLetters[i] = c]
    ELSE c

Upper(s) == [i \in 1..Len(s) |-> UpperChar(s[i])]

Lower(s) == [i \in 1..Len(s) |-> LowerChar(s[i])]

\* s[a-1:b] of Python for 1 <= a: the characters a..b that exist
Slice(s, a, b) == SubSeq(s, a, IF b > Len(s) THEN Len(s) ELSE b)

StartsWith(s, prefix) ==
    Len(s) >= Len(prefix) /\ SubSeq(s, 1, Len(prefix)) = prefix

EndsWith(s, suffix) ==
    Len(s) >= Len(suffix) /\ SubSeq(s, Len(s) - Len(suffix) + 1, Len(s)) = suffix

\* the least element of a non-empty set of integers
Least(S) == CHOOSE i \in S : \A j \in S : i <= j

Greatest(S) == CHOOSE i \in S : \A j \in S : i >= j

\* str.strip(chars): drop the leading and trailing characters that are in chars
StripChars(s, chars) ==
    LET keep == {i \in 1..Len(s) : s[i] \notin chars}
    IN  IF keep = {} THEN <<>>
        ELSE SubSeq(s, Least(keep),
                       Greatest(keep))

Strip(s) == StripChars(s, Whitespace)

\* the number of characters of s from position pos on that are all in chars
RunIn(s, pos, chars) ==
    IF pos > Len(s) THEN 0
    ELSE LET stops == {i \in pos..Len(s) : s[i] \notin chars}
         IN  IF stops = {} THEN Len(s) - pos + 1 ELSE Least(stops) - pos

\* regex \s*, greedy, from pos
SpaceRun(s, pos) == RunIn(s, pos, Whitespace)

\* regex [^\s]+, greedy, from pos
TokenRun(s, pos) ==
    IF pos > Len(s) THEN 0
    ELSE LET stops == {i \in pos..Len(s) : s[i] \in Whitespace}
         IN  IF stops = {} THEN Len(s) - pos + 1 ELSE Least(stops) - pos

\* regex (.+) from pos: to the end of the line ('.' matches no newline)
LineRun(s, pos) ==
    IF pos > Len(s) THEN 0
    ELSE LET stops == {i \in pos..Len(s) : s[i] = "\n"}
         IN  IF stops = {} THEN Len(s) - pos + 1 ELSE Least(stops) - pos

\* str.split(','): always at least one item
RECURSIVE SplitComma(_)
SplitComma(s) ==
    IF \E i \in 1..Len(s) : s[i] = ","
    THEN LET i == CHOOSE k \in 1..Len(s) : s[k] = "," /\ \A j \in 1..(k - 1) : s[j] # ","
         IN  <<SubSeq(s, 1, i - 1)>> \o SplitComma(SubSeq(s, i + 1, Len(s)))
    ELSE <<s>>

\* str(n) of a non-negative integer
RECURSIVE Decimal(_)
Decimal(n) ==
    IF n < 10 THEN <<DigitChars[n + 1]>>
    ELSE Decimal(n \div 10) \o <<DigitChars[(n % 10) + 1]>>

\* ', '.join(items)
RECURSIVE JoinComma(_)
JoinComma(items) ==
    IF Len(items) = 0 THEN <<>>
    ELSE IF Len(items) = 1 THEN items[1]
    ELSE items[1] \o <<",", " ">> \o JoinComma(Tail(items))

----------------------------------------------------------------------------
(* FilterOperator and the operator tables *)

\* class FilterOperator(Enum): each member with its value
FilterOperator ==
    [EQ |-> "=", NEQ |-> "!=", GT |-> ">", GTE |-> ">=", LT |-> "<", LTE |-> "<=",
     LIKE |-> "LIKE", ILIKE |-> "ILIKE", IN_ |-> "IN", NOT_IN |-> "NOT IN"]

\* FilterOperator.value as text
OperatorValue(op) ==
    CASE op = FilterOperator.EQ -> <<"=">>
      [] op = FilterOperator.NEQ -> <<"!", "=">>
      [] op = FilterOperator.GT -> <<">">>
      [] op = FilterOperator.GTE -> <<">", "=">>
      [] op = FilterOperator.LT -> <<"<">>
      [] op = FilterOperator.LTE -> <<"<", "=">>
      [] op = FilterOperator.LIKE -> <<"L", "I", "K", "E">>
      [] op = FilterOperator.ILIKE -> <<"I", "L", "I", "K", "E">>
      [] op = FilterOperator.IN_ -> <<"I", "N">>
      [] op = FilterOperator.NOT_IN -> <<"N", "O", "T", " ", "I", "N">>

NUMERIC_OPERATORS ==
    {FilterOperator.EQ, FilterOperator.NEQ, FilterOperator.GT, FilterOperator.GTE,
     FilterOperator.LT, FilterOperator.LTE}

STRING_OPERATORS ==
    {FilterOperator.EQ, FilterOperator.NEQ, FilterOperator.LIKE, FilterOperator.ILIKE,
     FilterOperator.IN_, FilterOperator.NOT_IN}

TAG_OPERATORS == {FilterOperator.EQ, FilterOperator.NEQ}

VALID_ATTRIBUTE_KEYS ==
    { <<"r", "e", "q", "u", "e", "s", "t", "_", "i", "d">>, <<"t", "i", "m", "e", "s", "t", "a", "m", "p">>, <<"t", "i", "m", "e", "s", "t", "a", "m", "p", "_", "m", "s">>, <<"e", "x", "e", "c", "u", "t", "i", "o", "n", "_", "t", "i", "m", "e">>,
      <<"e", "x", "e", "c", "u", "t", "i", "o", "n", "_", "t", "i", "m", "e", "_", "m", "s">>, <<"s", "t", "a", "t", "u", "s">>, <<"n", "a", "m", "e">>, <<"r", "u", "n", "_", "i", "d">> }

STRING_MAPPED_FIELDS == { <<"n", "a", "m", "e">> }

SEARCH_KEY_TO_TAG(field) == <<"m", "l", "f", "l", "o", "w", ".", "t", "r", "a", "c", "e", "N", "a", "m", "e">>

SEARCH_KEY_TO_METADATA(field) == <<"m", "l", "f", "l", "o", "w", ".", "s", "o", "u", "r", "c", "e", "R", "u", "n">>

\* SEARCH_KEY_TO_ATTRIBUTE, then column_map.get(field, field)
AttributeAlias(field) ==
    IF field = <<"t", "i", "m", "e", "s", "t", "a", "m", "p">> THEN <<"t", "i", "m", "e", "s", "t", "a", "m", "p", "_", "m", "s">>
    ELSE IF field = <<"e", "x", "e", "c", "u", "t", "i", "o", "n", "_", "t", "i", "m", "e">> THEN <<"e", "x", "e", "c", "u", "t", "i", "o", "n", "_", "t", "i", "m", "e", "_", "m", "s">>
    ELSE field

ColumnMap(field) ==
    IF field = <<"r", "e", "q", "u", "e", "s", "t", "_", "i", "d">> THEN <<"t", "r", "a", "c", "e", "_", "i", "d">>
    ELSE IF field = <<"t", "i", "m", "e", "s", "t", "a", "m", "p", "_", "m", "s">> THEN <<"r", "e", "q", "u", "e", "s", "t", "_", "t", "i", "m", "e">>
    ELSE IF field = <<"e", "x", "e", "c", "u", "t", "i", "o", "n", "_", "t", "i", "m", "e", "_", "m", "s">> THEN <<"e", "x", "e", "c", "u", "t", "i", "o", "n", "_", "d", "u", "r", "a", "t", "i", "o", "n", "_", "m", "s">>
    ELSE IF field = <<"s", "t", "a", "t", "u", "s">> THEN <<"s", "t", "a", "t", "e">>
    ELSE field

----------------------------------------------------------------------------
(* _split_by_and *)

NoQuote == ""

\* The scanner's variables between two passes of the while loop; cuts holds the
\* indexes where ' AND' was found (current is the text since the last cut), and
\* skip counts the characters that `i += 4` still jumps over.
ScanStart == [depth |-> 0, quote_char |-> NoQuote, skip |-> 0, cuts |-> <<>>]

\* the quote test of the loop: a quote character not preceded by a backslash
IsQuote(s, i) == s[i] \in {"\"", "'"} /\ (i = 1 \/ s[i - 1] # "\\")

\* one pass of the while loop at index i (1-based); quote_char = NoQuote is
\* in_quotes = False
ScanStep(s, i, st) ==
    IF st.skip > 0 THEN [st EXCEPT !.skip = @ - 1]
    ELSE IF IsQuote(s, i)
    THEN [st EXCEPT !.quote_char = IF @ = NoQuote THEN s[i]
                                   ELSE IF s[i] = @ THEN NoQuote ELSE @]
    ELSE IF st.quote_char # NoQuote THEN st
    ELSE IF s[i] = "(" THEN [st EXCEPT !.depth = @ + 1]
    ELSE IF s[i] = ")" THEN [st EXCEPT !.depth = @ - 1]
    ELSE IF st.depth = 0 /\ Upper(Slice(s, i, i + 3)) = <<" ", "A", "N", "D">>
    THEN [st EXCEPT !.cuts = Append(@, i), !.skip = 3]
    ELSE st

\* the passes at indexes lo..hi in order: the first half, then the second half from
\* the state the first half leaves (the halves keep the evaluation shallow, and the
\* test on first makes it evaluated before the second half starts)
RECURSIVE Scan(_, _, _, _)
Scan(s, lo, hi, st) ==
    IF lo > hi THEN st
    ELSE IF lo = hi THEN ScanStep(s, lo, st)
    ELSE LET first == Scan(s, lo, (lo + hi) \div 2, st)
         IN  IF first.skip >= 0 THEN Scan(s, ((lo + hi) \div 2) + 1, hi, first) ELSE first

\* parts: the stripped text before each cut, then what follows the last cut if any
SplitParts(s, cuts) ==
    LET n == Len(cuts)
        start(k) == IF k = 1 THEN 1 ELSE cuts[k - 1] + 4
    IN  [k \in 1..n |-> Strip(SubSeq(s, start(k), cuts[k] - 1))]
        \o (IF start(n + 1) <= Len(s) THEN <<Strip(SubSeq(s, start(n + 1), Len(s)))>>
            ELSE <<>>)

SplitByAnd(filter) == SplitParts(filter, Scan(filter, 1, Len(filter), ScanStart).cuts)

----------------------------------------------------------------------------
(* _parse_value, _parse_single_value: parsed values *)

StrV(s) == [t |-> "str", s |-> s, n |-> 0, items |-> <<>>]
BoolV(b) == [t |-> "bool", s |-> <<>>, n |-> IF b THEN 1 ELSE 0, items |-> <<>>]
IntV(n) == [t |-> "int", s |-> <<>>, n |-> n, items |-> <<>>]
\* a float is carried as the text float() was given
FloatV(s) == [t |-> "float", s |-> s, n |-> 0, items |-> <<>>]
ListV(items) == [t |-> "list", s |-> <<>>, n |-> 0, items |-> items]

Unsigned(s) == IF Len(s) > 0 /\ s[1] \in {"+", "-"} THEN Tail(s) ELSE s

\* int(s) succeeds: an optional sign and one or more digits
IsIntText(s) ==
    LET u == Unsigned(s) IN Len(u) > 0 /\ \A i \in 1..Len(u) : IsDigit(u[i])

RECURSIVE DigitsValue(_)
DigitsValue(u) ==
    IF Len(u) = 0 THEN 0
    ELSE 10 * DigitsValue(SubSeq(u, 1, Len(u) - 1)) + DigitValue(u[Len(u)])

IntOf(s) == IF s[1] = "-" THEN 0 - DigitsValue(Unsigned(s)) ELSE DigitsValue(Unsigned(s))

\* float(s) succeeds for a text with a '.': an optional sign, digits around one point
IsFloatText(s) ==
    LET u == Unsigned(s) IN
    /\ Cardinality({i \in 1..Len(u) : u[i] = "."}) = 1
    /\ \E i \in 1..Len(u) : IsDigit(u[i])
    /\ \A i \in 1..Len(u) : IsDigit(u[i]) \/ u[i] = "."

\* _parse_single_value after its value_str.strip()
SingleValue(v) ==
    IF (StartsWith(v, <<"\"">>) /\ EndsWith(v, <<"\"">>))
       \/ (StartsWith(v, <<"'">>) /\ EndsWith(v, <<"'">>))
    THEN StrV(SubSeq(v, 2, Len(v) - 1))
    ELSE IF Lower(v) = <<"t", "r", "u", "e">> THEN BoolV(TRUE)
    ELSE IF Lower(v) = <<"f", "a", "l", "s", "e">> THEN BoolV(FALSE)
    ELSE IF \E i \in 1..Len(v) : v[i] = "."
    THEN IF IsFloatText(v) THEN FloatV(v) ELSE StrV(v)
    ELSE IF IsIntText(v) THEN IntV(IntOf(v)) ELSE StrV(v)

ParseSingleValue(value_str) == SingleValue(Strip(value_str))

\* the tuple text of an IN list without its parentheses
Unparenthesised(v) ==
    IF StartsWith(v, <<"(">>) /\ EndsWith(v, <<")">>) THEN SubSeq(v, 2, Len(v) - 1) ELSE v

\* the for loop over value_str.split(',')
ListValue(items) == ListV([i \in 1..Len(items) |-> ParseSingleValue(Strip(items[i]))])

ParseValue(value_str, operator) ==
    IF operator \in {FilterOperator.IN_, FilterOperator.NOT_IN}
    THEN ListValue(SplitComma(Unparenthesised(Strip(value_str))))
    ELSE ParseSingleValue(Strip(value_str))

----------------------------------------------------------------------------
(* What a method returns: (sql, params) with the counter it leaves, or raises *)

EmptyParams == [k \in {} |-> StrV(<<>>)]

OneParam(name, value) == [k \in {name} |-> value]

\* dict.update / dict item assignment
Update(a, b) ==
    [k \in (DOMAIN a) \cup (DOMAIN b) |-> IF k \in DOMAIN b THEN b[k] ELSE a[k]]

Returns(sql, ps, counter) ==
    [error |-> "", none |-> FALSE, sql |-> sql, params |-> ps, counter |-> counter]

ReturnsNone(counter) ==
    [error |-> "", none |-> TRUE, sql |-> <<>>, params |-> EmptyParams, counter |-> counter]

Raises(message, counter) ==
    [error |-> message, none |-> FALSE, sql |-> <<>>, params |-> EmptyParams,
     counter |-> counter]

\* a _get_param_name that issues the same name whatever the counter
FirstParamName(counter) == <<"p", "a", "r", "a", "m", "_", "0">>

\* _get_param_name: the name issued when param_counter = counter
GetParamName(counter) == <<"p", "a", "r", "a", "m", "_">> \o Decimal(counter)

Placeholder(counter) == <<":">> \o GetParamName(counter)

----------------------------------------------------------------------------
(* _generate_*_condition *)

\* the IN / NOT IN branches: param_name was taken first, so the n elements get the
\* names from counter + 1 on
InListCondition(column, operator, items, first) ==
    Returns(column \o <<" ">> \o OperatorValue(operator) \o <<" ", "(">>
              \o JoinComma([i \in 1..Len(items) |-> Placeholder(first + i - 1)]) \o <<")">>,
            [k \in {GetParamName(first + i - 1) : i \in 1..Len(items)} |->
               items[CHOOSE i \in 1..Len(items) : GetParamName(first + i - 1) = k]],
            first + Len(items))

\* _generate_attribute_condition once the alias is mapped
AttributeCondition(field, operator, value, counter) ==
    IF field \in { <<"t", "i", "m", "e", "s", "t", "a", "m", "p", "_", "m", "s">>, <<"e", "x", "e", "c", "u", "t", "i", "o", "n", "_", "t", "i", "m", "e", "_", "m", "s">> } /\ operator \notin NUMERIC_OPERATORS
    THEN Raises("Invalid operator for numeric field", counter)
    ELSE IF operator \in {FilterOperator.IN_, FilterOperator.NOT_IN}
    THEN InListCondition(ColumnMap(field), operator, value.items, counter + 1)
    ELSE Returns(ColumnMap(field) \o <<" ">> \o OperatorValue(operator) \o <<" ">>
                   \o Placeholder(counter),
                 OneParam(GetParamName(counter), value), counter + 1)

GenerateAttributeCondition(field, operator, value, counter) ==
    AttributeCondition(AttributeAlias(field), operator, value, counter)

GenerateTagCondition(tag_key, operator, value, allow_string_ops, counter) ==
    IF operator \notin (IF allow_string_ops THEN STRING_OPERATORS ELSE TAG_OPERATORS)
    THEN Raises("Operator not supported for tags", counter)
    ELSE Returns(<<"t", "a", "g", "s", "[", "'">> \o tag_key \o <<"'", "]", " ">> \o OperatorValue(operator) \o <<" ">>
                   \o Placeholder(counter),
                 OneParam(GetParamName(counter), value), counter + 1)

GenerateMetadataCondition(metadata_key, operator, value, counter) ==
    Returns(<<"t", "r", "a", "c", "e", "_", "m", "e", "t", "a", "d", "a", "t", "a", "[", "'">> \o metadata_key \o <<"'", "]", " ">> \o OperatorValue(operator)
              \o <<" ">> \o Placeholder(counter),
            OneParam(GetParamName(counter), value), counter + 1)

GenerateFeedbackCondition(feedback_name, operator, value, counter) ==
    Returns(<<"f", "e", "e", "d", "b", "a", "c", "k", ".">> \o feedback_name \o <<" ">> \o OperatorValue(operator) \o <<" ">>
              \o Placeholder(counter),
            OneParam(GetParamName(counter), value), counter + 1)

\* _generate_span_condition without the operator check for span.content
SpanConditionAnyOperator(span_field, operator, value, counter) ==
    IF span_field \notin { <<"t", "y", "p", "e">>, <<"n", "a", "m", "e">>, <<"s", "t", "a", "t", "u", "s">>, <<"c", "o", "n", "t", "e", "n", "t">> }
    THEN Raises("Invalid span field", counter)
    ELSE Returns(<<"s", "p", "a", "n", "_">> \o span_field \o <<" ">> \o OperatorValue(operator) \o <<" ">>
                   \o Placeholder(counter),
                 OneParam(GetParamName(counter), value), counter + 1)

GenerateSpanCondition(span_field, operator, value, counter) ==
    IF span_field \notin { <<"t", "y", "p", "e">>, <<"n", "a", "m", "e">>, <<"s", "t", "a", "t", "u", "s">>, <<"c", "o", "n", "t", "e", "n", "t">> }
    THEN Raises("Invalid span field", counter)
    ELSE IF span_field = <<"c", "o", "n", "t", "e", "n", "t">> /\ operator \notin {FilterOperator.LIKE, FilterOperator.ILIKE}
    THEN Raises("span.content only supports LIKE/ILIKE operators", counter)
    ELSE Returns(<<"s", "p", "a", "n", "_">> \o span_field \o <<" ">> \o OperatorValue(operator) \o <<" ">>
                   \o Placeholder(counter),
                 OneParam(GetParamName(counter), value), counter + 1)

----------------------------------------------------------------------------
(* The two regular expressions, matched as re.match does *)

\* (!=|>=|<=|>|<|=|LIKE|ILIKE|NOT IN|IN), in the order the regex tries them
ConditionAlternatives ==
    <<FilterOperator.NEQ, FilterOperator.GTE, FilterOperator.LTE, FilterOperator.GT,
      FilterOperator.LT, FilterOperator.EQ, FilterOperator.LIKE, FilterOperator.ILIKE,
      FilterOperator.NOT_IN, FilterOperator.IN_>>

\* (>=|<=|!=|>|<|=)
CountAlternatives ==
    <<FilterOperator.GTE, FilterOperator.LTE, FilterOperator.NEQ, FilterOperator.GT,
      FilterOperator.LT, FilterOperator.EQ>>

\* \s*(.+) from position p: the positions where group 3 can start; greedy \s* takes
\* the last of them
ValueStarts(s, p) ==
    {p + k : k \in {j \in 0..SpaceRun(s, p) : p + j <= Len(s) /\ s[p + j] # "\n"}}

\* the text lit matches at pos (re.IGNORECASE) and \s*(.+) matches after it
LiteralAt(s, pos, lit) ==
    /\ pos + Len(lit) - 1 <= Len(s)
    /\ Upper(SubSeq(s, pos, pos + Len(lit) - 1)) = lit
    /\ ValueStarts(s, pos + Len(lit)) # {}

AlternativeAt(s, pos, op) == LiteralAt(s, pos, OperatorValue(op))

\* the first alternative that lets the rest of the pattern match, 0 for none
FirstAlternative(s, pos, alts) ==
    IF \E k \in 1..Len(alts) : AlternativeAt(s, pos, alts[k])
    THEN CHOOSE k \in 1..Len(alts) :
            AlternativeAt(s, pos, alts[k]) /\ \A j \in 1..(k - 1) : ~AlternativeAt(s, pos, alts[j])
    ELSE 0

\* where the operator must start when group 1 ([^\s]+) is the first n characters of
\* a first token of L characters
OperatorPos(s, n, L) == IF n = L THEN L + 1 + SpaceRun(s, L + 1) ELSE n + 1

GreatestOr(fits, none) == IF fits = {} THEN none ELSE Greatest(fits)

LeastOr(fits, none) == IF fits = {} THEN none ELSE Least(fits)

\* greedy [^\s]+ gives characters back one at a time: the longest group 1 that
\* lets the pattern match, 0 for none
LongestField(s, L) ==
    GreatestOr({n \in 1..L :
                  FirstAlternative(s, OperatorPos(s, n, L), ConditionAlternatives) # 0}, 0)

NoMatch == [matched |-> FALSE, g1 |-> <<>>, op |-> FilterOperator.EQ, g3 |-> <<>>]

\* group 3, (.+), after \s* from p
Group3(s, p) == SubSeq(s, Greatest(ValueStarts(s, p)), Len(s))

FirstLine(s) == SubSeq(s, 1, LineRun(s, 1))

\* the match object: group 1 is s[a..b], the operator op starts at p
MatchGroups(s, a, b, p, op) ==
    [matched |-> TRUE, g1 |-> SubSeq(s, a, b), op |-> op,
     g3 |-> FirstLine(Group3(s, p + Len(OperatorValue(op))))]

\* the match with group 1 of n characters (0: no match) and the operator at p
MatchAt(s, n, p, alts) ==
    IF n = 0 THEN NoMatch
    ELSE MatchGroups(s, 1, n, p, alts[FirstAlternative(s, p, alts)])

FieldMatch(s, n, L) == MatchAt(s, n, OperatorPos(s, n, L), ConditionAlternatives)

\* re.match(r'([^\s]+)\s*(!=|>=|<=|>|<|=|LIKE|ILIKE|NOT IN|IN)\s*(.+)', s, re.IGNORECASE)
ConditionMatch(s) == FieldMatch(s, LongestField(s, TokenRun(s, 1)), TokenRun(s, 1))

\* the lazy group 1 takes one more character at a time ('.' matches no newline):
\* the shortest group 1 of k characters after "count(" that lets the pattern
\* match, -1 for none
ShortestInner(s) ==
    LeastOr({k \in 0..(Len(s) - 7) :
               /\ s[7 + k] = ")"
               /\ LineRun(s, 7) >= k
               /\ FirstAlternative(s, 8 + k + SpaceRun(s, 8 + k), CountAlternatives) # 0}, -1)

InnerMatch(expr, k, p) ==
    IF k < 0 THEN NoMatch
    ELSE MatchGroups(expr, 7, 6 + k, p,
                     CountAlternatives[FirstAlternative(expr, p, CountAlternatives)])

CountInnerMatch(expr, k) == InnerMatch(expr, k, 8 + k + SpaceRun(expr, 8 + k))

\* re.match of the count pattern, 'count(' lazy-group ')' \s* (>=|<=|!=|>|<|=) \s* (.+),
\* on expr with re.IGNORECASE
CountMatch(expr) ==
    CountInnerMatch(expr, IF Upper(Slice(expr, 1, 6)) = <<"C", "O", "U", "N", "T", "(">> THEN ShortestInner(expr)
                          ELSE -1)

----------------------------------------------------------------------------
(* _parse_condition, _parse_count_expression, parse *)

RECURSIVE ParseCondition(_, _)

\* the end of _parse_count_expression: the count's own parameter after the inner ones
CountCondition(inner, op, count_value) ==
    IF inner.error # "" THEN inner
    ELSE Returns(<<"C", "O", "U", "N", "T", "(">> \o (IF inner.none THEN <<"N", "o", "n", "e">> ELSE inner.sql) \o <<")", " ">>
                   \o OperatorValue(op) \o <<" ">> \o Placeholder(inner.counter),
                 Update(inner.params, OneParam(GetParamName(inner.counter), count_value)),
                 inner.counter + 1)

CountOfMatch(m, counter) ==
    IF ~m.matched THEN Raises("Invalid count expression", counter)
    ELSE CountCondition(ParseCondition(m.g1, counter), m.op, ParseSingleValue(m.g3))

ParseCountExpression(expr, counter) == CountOfMatch(CountMatch(expr), counter)

\* the dispatch on the field of _parse_condition, after the regex and _parse_value
GenerateCondition(field, operator, value, counter) ==
    IF StartsWith(field, <<"t", "a", "g", "s", ".">>)
    THEN GenerateTagCondition(SubSeq(field, 6, Len(field)), operator, value, FALSE, counter)
    ELSE IF StartsWith(field, <<"m", "e", "t", "a", "d", "a", "t", "a", ".">>)
    THEN GenerateMetadataCondition(SubSeq(field, 10, Len(field)), operator, value, counter)
    ELSE IF StartsWith(field, <<"f", "e", "e", "d", "b", "a", "c", "k", ".">>)
    THEN GenerateFeedbackCondition(SubSeq(field, 10, Len(field)), operator, value, counter)
    ELSE IF StartsWith(field, <<"s", "p", "a", "n", ".">>)
    THEN GenerateSpanCondition(SubSeq(field, 6, Len(field)), operator, value, counter)
    ELSE IF field = <<"n", "a", "m", "e">>
    THEN GenerateTagCondition(SEARCH_KEY_TO_TAG(field), operator, value,
                              field \in STRING_MAPPED_FIELDS, counter)
    ELSE IF field = <<"r", "u", "n", "_", "i", "d">>
    THEN GenerateMetadataCondition(SEARCH_KEY_TO_METADATA(field), operator, value, counter)
    ELSE GenerateAttributeCondition(field, operator, value, counter)

ConditionOfMatch(m, counter) ==
    IF ~m.matched THEN Raises("Invalid filter condition", counter)
    ELSE GenerateCondition(StripChars(m.g1, {Backtick, "\""}), m.op,
                           ParseValue(Strip(m.g3), m.op), counter)

\* _parse_condition after its condition_str.strip()
ParseStripped(s, counter) ==
    IF s = <<>> THEN ReturnsNone(counter)
    ELSE IF StartsWith(s, <<"c", "o", "u", "n", "t", "(">>) THEN ParseCountExpression(s, counter)
    ELSE ConditionOfMatch(ConditionMatch(s), counter)

ParseCondition(condition_str, counter) == ParseStripped(Strip(condition_str), counter)

RECURSIVE ParseLoop(_, _, _, _, _)

\* the body of the for loop of parse for a part whose _parse_condition gave r
LoopBody(parts, i, conds, ps, r) ==
    IF r.error # ""
    THEN [error |-> r.error, conditions |-> <<>>, params |-> EmptyParams,
          counter |-> r.counter]
    ELSE IF r.none
    THEN ParseLoop(parts, i + 1, conds, ps, r.counter)
    ELSE ParseLoop(parts, i + 1, Append(conds, r.sql), Update(ps, r.params), r.counter)

\* the for loop of parse over filter_parts from index i
ParseLoop(parts, i, conds, ps, counter) ==
    IF i > Len(parts)
    THEN [error |-> "", conditions |-> conds, params |-> ps, counter |-> counter]
    ELSE LoopBody(parts, i, conds, ps, ParseCondition(Strip(parts[i]), counter))

\* TraceFilterParser.parse on a parser whose param_counter is counter
ParseFilter(filter, counter) ==
    IF filter = <<>>
    THEN [error |-> "", conditions |-> <<>>, params |-> EmptyParams, counter |-> counter]
    ELSE ParseLoop(SplitByAnd(filter), 1, <<>>, EmptyParams, counter)

----------------------------------------------------------------------------
(* The filters a caller writes.  A written filter is a sequence of clauses *)
(* joined by " AND "; filter_string is its text.  The record keeps what    *)
(* was written (field, operator, spacing, literals) beside the text.       *)

\* a literal: its opening quote, body and closing quote ("" for none)
Quoted(body) == [open |-> "'", body |-> body, close |-> "'"]
DoubleQuoted(body) == [open |-> "\"", body |-> body, close |-> "\""]
Bare(body) == [open |-> "", body |-> body, close |-> ""]
Unterminated(body) == [open |-> "'", body |-> body, close |-> ""]

QuoteText(q) == IF q = "" THEN <<>> ELSE <<q>>

LiteralText(l) == QuoteText(l.open) \o l.body \o QuoteText(l.close)

\* a right-hand side: one literal, or a parenthesised list of literals
Scalar(l) == [list |-> FALSE, lits |-> <<l>>, closed |-> TRUE]
ListOf(ls) == [list |-> TRUE, lits |-> ls, closed |-> TRUE]
UnclosedList(ls) == [list |-> TRUE, lits |-> ls, closed |-> FALSE]

ValueText(v) ==
    IF v.list
    THEN <<"(">> \o JoinComma([i \in 1..Len(v.lits) |-> LiteralText(v.lits[i])])
           \o (IF v.closed THEN <<")">> ELSE <<>>)
    ELSE LiteralText(v.lits[1])

\* <field> <op> <value>; tight: no whitespace around the operator
Cmp(field, op, tight, value) ==
    [kind |-> "cmp", field |-> field, op |-> op, tight |-> tight, value |-> value,
     inner |-> <<>>]

\* count(<inner>) <op> <value>; inner is <<>> or one comparison
CountOf(inner, op, tight, value) ==
    [kind |-> "count", field |-> <<>>, op |-> op, tight |-> tight, value |-> value,
     inner |-> inner]

Sep(tight) == IF tight THEN <<>> ELSE <<" ">>

CmpText(c) ==
    c.field \o Sep(c.tight) \o OperatorValue(c.op) \o Sep(c.tight) \o ValueText(c.value)

ClauseText(c) ==
    IF c.kind = "count"
    THEN <<"c", "o", "u", "n", "t", "(">> \o (IF c.inner = <<>> THEN <<>> ELSE CmpText(c.inner[1])) \o <<")">>
           \o Sep(c.tight) \o OperatorValue(c.op) \o Sep(c.tight) \o ValueText(c.value)
    ELSE CmpText(c)

RECURSIVE FilterText(_)
FilterText(w) ==
    IF Len(w) = 0 THEN <<>>
    ELSE IF Len(w) = 1 THEN ClauseText(w[1])
    ELSE ClauseText(w[1]) \o <<" ", "A", "N", "D", " ">> \o FilterText(Tail(w))

NumericFields == { <<"t", "i", "m", "e", "s", "t", "a", "m", "p">>, <<"t", "i", "m", "e", "s", "t", "a", "m", "p", "_", "m", "s">>, <<"e", "x", "e", "c", "u", "t", "i", "o", "n", "_", "t", "i", "m", "e">>, <<"e", "x", "e", "c", "u", "t", "i", "o", "n", "_", "t", "i", "m", "e", "_", "m", "s">> }

StringFields == { <<"s", "t", "a", "t", "u", "s">>, <<"r", "e", "q", "u", "e", "s", "t", "_", "i", "d">> }

PrefixedFields ==
    { <<"t", "a", "g", "s", ".", "e", "n", "v">>, <<"m", "e", "t", "a", "d", "a", "t", "a", ".", "s", "r", "c">>, <<"f", "e", "e", "d", "b", "a", "c", "k", ".", "s", "c", "o", "r", "e">>, <<"s", "p", "a", "n", ".", "t", "y", "p", "e">>, <<"s", "p", "a", "n", ".", "s", "t", "a", "t", "u", "s">>,
      <<"s", "p", "a", "n", ".", "c", "o", "n", "t", "e", "n", "t">>, <<"s", "p", "a", "n", ".", "n", "a", "m", "e">>, <<"s", "p", "a", "n", ".", "b", "a", "d">> }

UnknownFields == { <<"f", "o", "o">> }

Fields ==
    NumericFields \cup StringFields \cup { <<"n", "a", "m", "e">>, <<"r", "u", "n", "_", "i", "d">> } \cup PrefixedFields
      \cup UnknownFields

ScalarValues ==
    { Scalar(Quoted(<<"O", "K">>)), Scalar(Quoted(<<"a", "=", "b">>)), Scalar(Bare(<<"5">>)),
      Scalar(Bare(<<"2", ".", "5">>)), Scalar(Bare(<<"t", "r", "u", "e">>)), Scalar(Bare(<<"a", "b", "c">>)),
      Scalar(Unterminated(<<"O", "K">>)) }

ListValues ==
    { ListOf(<<Quoted(<<"a">>), Quoted(<<"b">>)>>), ListOf(<<Quoted(<<"x", ",", "y">>), Quoted(<<"c">>)>>),
      UnclosedList(<<Quoted(<<"a">>)>>) }

\* one comparison: every field with every operator, the symbol operators with and
\* without whitespace, IN / NOT IN with a list and the others with a scalar
SingleClauses ==
    { Cmp(f, op, t, v) : f \in Fields, op \in NUMERIC_OPERATORS, t \in BOOLEAN,
                         v \in ScalarValues }
    \cup { Cmp(f, op, FALSE, v) : f \in Fields,
                                op \in {FilterOperator.LIKE, FilterOperator.ILIKE},
                                v \in ScalarValues }
    \cup { Cmp(f, op, FALSE, v) : f \in Fields,
                                op \in {FilterOperator.IN_, FilterOperator.NOT_IN},
                                v \in ListValues }

CountInners ==
    { <<>>,
      <<Cmp(<<"s", "p", "a", "n", ".", "t", "y", "p", "e">>, FilterOperator.EQ, FALSE, Scalar(Quoted(<<"L", "L", "M">>)))>>,
      <<Cmp(<<"s", "p", "a", "n", ".", "b", "a", "d">>, FilterOperator.EQ, FALSE, Scalar(Bare(<<"1">>)))>>,
      <<Cmp(<<"s", "t", "a", "t", "u", "s">>, FilterOperator.IN_, FALSE, ListOf(<<Quoted(<<"a">>), Quoted(<<"b">>)>>))>>,
      <<Cmp(<<"e", "x", "e", "c", "u", "t", "i", "o", "n", "_", "t", "i", "m", "e">>, FilterOperator.GTE, TRUE, Scalar(Bare(<<"5">>)))>> }

CountValues ==
    { Scalar(Bare(<<"2">>)), Scalar(Bare(<<"2", ".", "5">>)), Scalar(Bare(<<"t", "r", "u", "e">>)),
      Scalar(Quoted(<<"x">>)), Scalar(Bare(<<"a", "b", "c">>)) }

CountClauses ==
    { CountOf(i, op, t, v) : i \in CountInners, op \in NUMERIC_OPERATORS, t \in BOOLEAN,
                             v \in CountValues }
    \cup { CountOf(i, FilterOperator.LIKE, FALSE, v) : i \in CountInners, v \in CountValues }

\* the clauses that are combined with AND
JoinedClauses ==
    { Cmp(<<"s", "t", "a", "t", "u", "s">>, FilterOperator.EQ, FALSE, Scalar(Quoted(<<"O", "K">>))),
      Cmp(<<"e", "x", "e", "c", "u", "t", "i", "o", "n", "_", "t", "i", "m", "e">>, FilterOperator.GT, FALSE, Scalar(Bare(<<"1", "0", "0", "0">>))),
      Cmp(<<"n", "a", "m", "e">>, FilterOperator.EQ, FALSE, Scalar(Quoted(<<"t", "e", "s", "t", " ", "A", "N", "D", " ", "m", "o", "r", "e">>))),
      Cmp(<<"r", "e", "q", "u", "e", "s", "t", "_", "i", "d">>, FilterOperator.IN_, FALSE,
          ListOf(<<Quoted(<<"a", " ", "A", "N", "D", " ", "b">>), Quoted(<<"c">>)>>)),
      Cmp(<<"r", "u", "n", "_", "i", "d">>, FilterOperator.NEQ, FALSE, Scalar(DoubleQuoted(<<"i", "t", "'", "s", " ", "A", "N", "D">>))),
      Cmp(<<"t", "a", "g", "s", ".", "e", "n", "v">>, FilterOperator.LIKE, FALSE, Scalar(Quoted(<<"%", "p", "r", "o", "d", "%">>))),
      Cmp(<<"t", "i", "m", "e", "s", "t", "a", "m", "p">>, FilterOperator.LTE, TRUE, Scalar(Bare(<<"1", "0">>))),
      Cmp(<<"s", "t", "a", "t", "u", "s">>, FilterOperator.EQ, FALSE, Scalar(Bare(<<"A", "N", "D", "R", "O", "I", "D">>))),
      CountOf(<<Cmp(<<"s", "p", "a", "n", ".", "t", "y", "p", "e">>, FilterOperator.EQ, FALSE, Scalar(Quoted(<<"L", "L", "M">>)))>>,
              FilterOperator.GT, FALSE,
              Scalar(Bare(<<"2">>))) }

MaxClauses == 2

MaxCounter == 1

RECURSIVE ClauseSequences(_, _)
ClauseSequences(S, n) ==
    IF n = 0 THEN {<<>>}
    ELSE {Append(w, c) : w \in ClauseSequences(S, n - 1), c \in S}

WrittenFilters ==
    {<<>>} \cup {<<c>> : c \in SingleClauses \cup CountClauses}
    \cup UNION {ClauseSequences(JoinedClauses, n) : n \in 1..MaxClauses}

----------------------------------------------------------------------------
(* The parser object and its caller *)

Cleared ==
    /\ written' = <<>>
    /\ filter_string' = <<>>
    /\ conditions' = <<>>
    /\ params' = EmptyParams
    /\ error' = ""

ParserInit ==
    /\ param_counter = 0
    /\ first_param = 0
    /\ pc = "idle"
    /\ written = <<>>
    /\ filter_string = <<>>
    /\ conditions = <<>>
    /\ params = EmptyParams
    /\ error = ""

\* TraceFilterParser(table_name): a fresh parser replaces the one in use
NewParser ==
    /\ pc = "idle"
    /\ param_counter # 0
    /\ param_counter' = 0
    /\ first_param' = 0
    /\ pc' = "idle"
    /\ Cleared
    /\ UNCHANGED except_parser

\* the call parse(text) returns or raises r
ParseResult(w, text, r) ==
    /\ written' = w
    /\ filter_string' = text
    /\ first_param' = param_counter
    /\ param_counter' = r.counter
    /\ conditions' = r.conditions
    /\ params' = r.params
    /\ error' = r.error

\* parser.parse(filter_string) returns (conditions, params) or raises
Parse(w) ==
    /\ pc = "idle"
    /\ param_counter <= MaxCounter
    /\ ParseResult(w, FilterText(w), ParseFilter(FilterText(w), param_counter))
    /\ pc' = "returned"
    /\ UNCHANGED except_parser

\* the caller has taken the result (or handled the exception); the parser stays
Collect ==
    /\ pc = "returned"
    /\ pc' = "idle"
    /\ first_param' = param_counter
    /\ Cleared
    /\ UNCHANGED <<param_counter, except_parser>>

----------------------------------------------------------------------------
(* Time bucketing: mlflow/server/trace_insights/time_bucketing.py and the
   Databricks insights store.  Timestamps and offsets are milliseconds. *)

HourMs == 3600000
DayMs == 86400000
WeekMs == 604800000

SupportedBuckets == {"hour", "day", "week"}

\* what a bucketing function hands back: a number, a text, or both
Value(n, s) == [n |-> n, s |-> s]

NoValue == Value(0, "")

\* get_bucket_size_ms: the dictionary of bucket sizes
bucket_sizes == [hour |-> HourMs, day |-> DayMs, week |-> WeekMs]

\* get_bucket_size_ms(time_bucket)
get_bucket_size_ms(bucket) ==
    IF bucket \notin DOMAIN bucket_sizes
    THEN [result |-> NoValue, error |-> "ValueError"]
    ELSE [result |-> Value(bucket_sizes[bucket], ""), error |-> ""]

\* validate_time_bucket(time_bucket)
validate_time_bucket(bucket) ==
    IF bucket \notin SupportedBuckets
    THEN [result |-> NoValue, error |-> "ValueError"]
    ELSE [result |-> Value(0, bucket), error |-> ""]

\* Python's a // b for b > 0: the quotient rounded toward minus infinity
FloorDiv(a, b) == a \div b

\* the quotient rounded toward zero, as C and SQL integer division give it
TowardZero(a, b) == IF a >= 0 THEN a \div b ELSE 0 - ((0 - a) \div b)

\* get_time_bucket_value with quotients rounded toward zero
TruncatedBucketValue(ts, bucket, offset) ==
    IF bucket = "hour"
    THEN [result |-> Value(TowardZero(ts, HourMs) * HourMs, ""), error |-> ""]
    ELSE IF bucket = "day"
    THEN [result |-> Value(TowardZero(ts + offset, DayMs) * DayMs - offset, ""), error |-> ""]
    ELSE IF bucket = "week"
    THEN [result |-> Value(TowardZero(ts + offset, WeekMs) * WeekMs - offset, ""), error |-> ""]
    ELSE [result |-> NoValue, error |-> "ValueError"]

\* get_time_bucket_value(timestamp_ms, time_bucket, offset_ms)
get_time_bucket_value(ts, bucket, offset) ==
    IF bucket = "hour"
    THEN [result |-> Value(FloorDiv(ts, HourMs) * HourMs, ""), error |-> ""]
    ELSE IF bucket = "day"
    THEN [result |-> Value(FloorDiv(ts + offset, DayMs) * DayMs - offset, ""), error |-> ""]
    ELSE IF bucket = "week"
    THEN [result |-> Value(FloorDiv(ts + offset, WeekMs) * WeekMs - offset, ""), error |-> ""]
    ELSE [result |-> NoValue, error |-> "ValueError"]

\* get_time_bucket_expression(time_bucket, timezone), for a timezone whose
\* offset from UTC is tz_offset now (0 for no timezone or an unknown one):
\* the expression is cast(cast((timestamp_ms + n) / size) * size - n), of which
\* the result keeps the offset n and the granularity whose size it divides by
get_time_bucket_expression(bucket, tz_offset) ==
    IF bucket = "hour"
    THEN [result |-> Value(0, "hour"), error |-> ""]
    ELSE IF bucket \in {"day", "week"}
    THEN [result |-> Value(tz_offset, bucket), error |-> ""]
    ELSE [result |-> NoValue, error |-> "ValueError"]

\* InsightsDatabricksSqlStore._get_time_bucket_expression(time_expr,
\* time_bucket, timezone): the expression is date_trunc(s, time_expr), taken
\* back to UTC from the timezone of offset n when a timezone is given
databricks_time_bucket_expression(bucket, tz_offset) ==
    IF bucket = "hour"
    THEN [result |-> Value(tz_offset, "hour"), error |-> ""]
    ELSE IF bucket = "day"
    THEN [result |-> Value(tz_offset, "day"), error |-> ""]
    ELSE IF bucket = "week"
    THEN [result |-> Value(tz_offset, "week"), error |-> ""]
    ELSE [result |-> Value(tz_offset, "hour"), error |-> ""]

(* The calls made *)

MaxDays == 7

\* UTC, America/Los_Angeles in winter, Asia/Kolkata
Offsets == {0, 0 - 8 * HourMs, 5 * HourMs + HourMs \div 2}

\* midnight and the millisecond before it, in UTC and in each of the offsets,
\* and the end of the first hour
TimesOfDay ==
    {(DayMs - o) % DayMs : o \in Offsets}
        \cup {(DayMs - o - 1) % DayMs : o \in Offsets}
        \cup {HourMs - 1}

Timestamps == {d * DayMs + t : d \in (0 - MaxDays)..MaxDays, t \in TimesOfDay}

TimeBuckets == SupportedBuckets \cup {"month", ""}

BucketInit ==
    /\ bucket_call = ""
    /\ time_bucket = ""
    /\ timestamp_ms = 0
    /\ offset_ms = 0
    /\ bucket_result = NoValue
    /\ bucket_error = ""

\* the function name was called with these arguments and returned or raised r
BucketCall(name, bucket, ts, offset, r) ==
    /\ bucket_call' = name
    /\ time_bucket' = bucket
    /\ timestamp_ms' = ts
    /\ offset_ms' = offset
    /\ bucket_result' = r.result
    /\ bucket_error' = r.error

ValidateTimeBucket(bucket) ==
    /\ BucketCall("validate_time_bucket", bucket, 0, 0, validate_time_bucket(bucket))
    /\ UNCHANGED except_bucket

GetBucketSizeMs(bucket) ==
    /\ BucketCall("get_bucket_size_ms", bucket, 0, 0, get_bucket_size_ms(bucket))
    /\ UNCHANGED except_bucket

GetTimeBucketValue(ts, bucket, offset) ==
    /\ BucketCall("get_time_bucket_value", bucket, ts, offset,
                   get_time_bucket_value(ts, bucket, offset))
    /\ UNCHANGED except_bucket

GetTimeBucketExpression(bucket, offset) ==
    /\ BucketCall("get_time_bucket_expression", bucket, 0, offset,
                   get_time_bucket_expression(bucket, offset))
    /\ UNCHANGED except_bucket

DatabricksTimeBucketExpression(bucket, offset) ==
    /\ BucketCall("_get_time_bucket_expression", bucket, 0, offset,
                   databricks_time_bucket_expression(bucket, offset))
    /\ UNCHANGED except_bucket

----------------------------------------------------------------------------
(* Correlation of two predicates over the traces of a store: normalised
   pointwise mutual information (NPMI), as the Databricks SQL store, the
   trace insights server and its ranking compute it. *)

\* math.log(n) for the counts a store of this size can give, in millionths;
\* the logarithm of a product is the sum of its factors' logarithms, so that
\* equal products have equal logarithms
LnMicro ==
    <<0, 693147, 1098612, 1386294, 1609438, 1791759, 1945910, 2079441,
      2197224, 2302585, 2397895, 2484906>>

\* pmi / -math.log(p_intersection), in units of 2^-53 above 1.0, as IEEE-754
\* doubles evaluate it when both predicates match the same j of t traces
\* (row t, column j < t): mathematically the quotient is 1
RoundingOfOne ==
    << <<>>,
       <<0>>,
       <<0, -1>>,
       <<0, 0, -2>>,
       <<0, -1, 0, -6>>,
       <<0, 0, 0, -1, 0>>,
       <<-1, 0, 0, -2, 0, 0>>,
       <<0, 0, 0, 0, 2, -2, -4>>,
       <<0, 0, 0, 0, 0, -1, -2, -4>>,
       <<0, 0, 0, -1, 0, 0, -1, -6, 6>>,
       <<0, 0, 0, 0, 2, 0, -1, 0, -2, 4>>,
       <<0, 0, 0, 0, 0, 0, -2, -1, -2, 0, 8>> >>

\* a float: num / den + ulps * 2^-53, with den > 0
Float(num, den, ulps) == [num |-> num, den |-> den, ulps |-> ulps]

\* the float literals -1.0, 0.0 and 1.0
Literal(k) == Float(k, 1, 0)

Abs(n) == IF n < 0 THEN 0 - n ELSE n

\* abs(x) >= tenths / 10
AbsAtLeast(x, tenths) == Abs(x.num) * 10 >= tenths * x.den

\* the strength of the score rounded to one decimal
RoundedStrength(npmi_score) ==
    IF Abs(npmi_score.num) * 100 >= 65 * npmi_score.den THEN "Strong"
    ELSE IF Abs(npmi_score.num) * 100 >= 35 * npmi_score.den THEN "Moderate"
    ELSE IF Abs(npmi_score.num) * 100 >= 5 * npmi_score.den THEN "Weak"
    ELSE "None"

\* the strength by thresholds that the score must exceed
StrictStrength(npmi_score) ==
    IF Abs(npmi_score.num) * 10 > 7 * npmi_score.den THEN "Strong"
    ELSE IF Abs(npmi_score.num) * 10 > 4 * npmi_score.den THEN "Moderate"
    ELSE IF Abs(npmi_score.num) * 10 > npmi_score.den THEN "Weak"
    ELSE "None"

\* get_correlation_strength(npmi_score)
get_correlation_strength(npmi_score) ==
    IF AbsAtLeast(npmi_score, 7) THEN "Strong"
    ELSE IF AbsAtLeast(npmi_score, 4) THEN "Moderate"
    ELSE IF AbsAtLeast(npmi_score, 1) THEN "Weak"
    ELSE "None"

\* math.log(p_joint / (p_1 * p_2)) / -math.log(p_joint) for 0 < joint < total
\* and p = count / total
\* the same with the first predicate's probability taken twice
LogRatioOfFirst(total, count1, count2, joint) ==
    Float(LnMicro[joint] + LnMicro[total] - LnMicro[count1] - LnMicro[count1],
          LnMicro[total] - LnMicro[joint],
          IF count1 = joint /\ count2 = joint THEN RoundingOfOne[total][joint] ELSE 0)

LogRatio(total, count1, count2, joint) ==
    Float(LnMicro[joint] + LnMicro[total] - LnMicro[count1] - LnMicro[count2],
          LnMicro[total] - LnMicro[joint],
          IF count1 = joint /\ count2 = joint THEN RoundingOfOne[total][joint] ELSE 0)

\* what a correlation call gives back: present is FALSE when it gives no
\* result for the pair; strength is "" where the result type has none
Correlation(npmi, strength, total, count1, count2, joint) ==
    [present |-> TRUE, error |-> "", npmi |-> npmi, strength |-> strength,
     total |-> total, count1 |-> count1, count2 |-> count2, joint |-> joint]

NoCorrelation(raised) ==
    [present |-> FALSE, error |-> raised, npmi |-> Literal(0), strength |-> "",
     total |-> 0, count1 |-> 0, count2 |-> 0, joint |-> 0]

\* the npmi column of the query of calculate_trace_filter_correlation
SqlNpmi(total, count1, count2, joint) ==
    IF joint = 0 THEN Literal(0 - 1)
    ELSE IF joint = count1 /\ joint = count2 THEN Literal(1)
    ELSE LogRatio(total, count1, count2, joint)

\* DatabricksSqlStore.calculate_trace_filter_correlation for one experiment
\* with a trace table: rows is whether the query gave a row, ansi whether the
\* session raises for a division by zero (spark.sql.ansi.enabled) or gives NULL
calculate_trace_filter_correlation(total, count1, count2, joint, rows, ansi) ==
    IF ~rows THEN Correlation(Literal(0), "", 0, 0, 0, 0)
    ELSE IF total = 0 /\ ansi THEN NoCorrelation("DIVIDE_BY_ZERO")
    ELSE Correlation(SqlNpmi(total, count1, count2, joint), "",
                     total, count1, count2, joint)

\* the npmi_score of calculate_npmi_score when total_count > 0
NpmiScore(total, count1, count2, joint) ==
    IF count1 = 0 \/ count2 = 0 \/ joint = 0 THEN Literal(0)
    ELSE IF joint = total THEN Literal(1)
    ELSE LogRatio(total, count1, count2, joint)

\* the result of calculate_npmi_score, given the npmi_score
NpmiResult(npmi_score, total, count1, count2, joint) ==
    Correlation(npmi_score, get_correlation_strength(npmi_score),
                total, count1, count2, joint)

\* calculate_npmi_score(store, experiment_ids, dimension1, dimension2)
calculate_npmi_score(total, count1, count2, joint) ==
    IF total = 0 THEN Correlation(Literal(0), "None", 0, 0, 0, 0)
    ELSE NpmiResult(NpmiScore(total, count1, count2, joint),
                    total, count1, count2, joint)

\* get_correlations_for_filter: the entry of the result for one value of a
\* dimension, matched by dim_count traces, joint of them among the
\* filter_count that match the filter
correlation_entry(total, filter_count, dim_count, joint) ==
    IF filter_count = 0 \/ joint = 0 THEN NoCorrelation("")
    ELSE NpmiResult(IF joint < total
                    THEN LogRatio(total, filter_count, dim_count, joint)
                    ELSE Literal(1),
                    total, filter_count, dim_count, joint)

(* The store and the calls made on it *)

MaxTraces == 10

\* the traces logged: how many match both predicates, the first only, the
\* second only, and neither
TraceKinds == {"both", "only1", "only2", "neither"}

TotalCount(t) == t.both + t.only1 + t.only2 + t.neither

Count1(t) == t.both + t.only1

Count2(t) == t.both + t.only2

\* the functions that correlate two predicates
CorrelationPaths ==
    {"calculate_trace_filter_correlation", "calculate_npmi_score",
     "get_correlations_for_filter"}

\* scores in hundredths on, just below and just above each threshold of
\* get_correlation_strength, of either sign, and the ends of the range
Scores ==
    {Float(sign * k, 100, 0) :
        sign \in {0 - 1, 1}, k \in {0, 9, 10, 11, 39, 40, 41, 69, 70, 71, 100}}

CorrelationInit ==
    /\ traces = [k \in TraceKinds |-> 0]
    /\ corr_call = [path |-> "", rows |-> TRUE, ansi |-> FALSE]
    /\ corr_result = NoCorrelation("")

\* a trace of the kind is logged to the store; results handed out are past
LogTrace(kind) ==
    /\ TotalCount(traces) < MaxTraces
    /\ traces' = [traces EXCEPT ![kind] = @ + 1]
    /\ corr_call' = [path |-> "", rows |-> TRUE, ansi |-> FALSE]
    /\ corr_result' = NoCorrelation("")
    /\ UNCHANGED except_corr

CalculateTraceFilterCorrelation(rows, ansi) ==
    /\ rows \/ TotalCount(traces) = 0
    /\ corr_call' = [path |-> "calculate_trace_filter_correlation",
                     rows |-> rows, ansi |-> ansi]
    /\ corr_result' = calculate_trace_filter_correlation(
                          TotalCount(traces), Count1(traces), Count2(traces),
                          traces.both, rows, ansi)
    /\ UNCHANGED <<traces, except_corr>>

CalculateNpmiScore ==
    /\ corr_call' = [path |-> "calculate_npmi_score", rows |-> TRUE, ansi |-> FALSE]
    /\ corr_result' = calculate_npmi_score(TotalCount(traces), Count1(traces),
                                           Count2(traces), traces.both)
    /\ UNCHANGED <<traces, except_corr>>

GetCorrelationsForFilter ==
    /\ corr_call' = [path |-> "get_correlations_for_filter", rows |-> TRUE, ansi |-> FALSE]
    /\ corr_result' = correlation_entry(TotalCount(traces), Count1(traces),
                                        Count2(traces), traces.both)
    /\ UNCHANGED <<traces, except_corr>>

GetCorrelationStrength(score) ==
    /\ corr_call' = [path |-> "get_correlation_strength", rows |-> TRUE, ansi |-> FALSE]
    /\ corr_result' = Correlation(score, get_correlation_strength(score), 0, 0, 0, 0)
    /\ UNCHANGED <<traces, except_corr>>

----------------------------------------------------------------------------
(* The ranking of get_correlations_for_filter: the tag values found among
   the traces of a filter, each scored against the filter and sorted. *)

\* a / b < c / d for a, c >= 0 and b, d > 0: by the whole parts, and for equal
\* whole parts by the reciprocals of the fractional parts
RECURSIVE RatioLess(_, _, _, _)
RatioLess(a, b, c, d) ==
    IF a \div b # c \div d THEN a \div b < c \div d
    ELSE IF c % d = 0 THEN FALSE
    ELSE IF a % b = 0 THEN TRUE
    ELSE RatioLess(d, c % d, b, a % b)

\* abs(x) < abs(y) for two npmi scores
AbsLess(x, y) ==
    \/ RatioLess(Abs(x.num), x.den, Abs(y.num), y.den)
    \/ /\ ~RatioLess(Abs(y.num), y.den, Abs(x.num), x.den)
       /\ x.ulps < y.ulps

\* the dictionaries appended to correlations, one for each row whose
\* intersection with the filter's traces is not empty
Appended(total, filter_count, rows) ==
    LET scored == [i \in 1..Len(rows) |->
                     [value |-> rows[i].value,
                      score |-> correlation_entry(total, filter_count,
                                                  rows[i].dim_count, rows[i].joint)]]
        appended(e) == e.score.present
    IN SelectSeq(scored, appended)

\* correlations.sort(key=lambda x: abs(x['npmi_score']), reverse=True): a
\* stable sort, so entry k comes before entry i when its key is greater, or
\* equal with k first in the list
SortedByAbs(e) ==
    [p \in 1..Len(e) |->
        e[CHOOSE i \in 1..Len(e) :
            Cardinality({k \in 1..Len(e) :
                \/ AbsLess(e[i].score.npmi, e[k].score.npmi)
                \/ ~AbsLess(e[k].score.npmi, e[i].score.npmi) /\ k < i}) = p - 1]]

\* correlations[:limit]
UpTo(s, limit) ==
    IF limit >= Len(s) THEN s
    ELSE IF limit >= 0 THEN SubSeq(s, 1, limit)
    ELSE IF Len(s) + limit >= 0 THEN SubSeq(s, 1, Len(s) + limit)
    ELSE <<>>

\* get_correlations_for_filter(store, experiment_ids, filter_string,
\* correlation_dimensions, limit=limit) on a store of total traces, of which
\* filter_count match the filter, with these tag values
get_correlations_for_filter(total, filter_count, rows, limit) ==
    IF filter_count = 0 THEN <<>>
    ELSE UpTo(SortedByAbs(Appended(total, filter_count, rows)), limit)

(* The store that is ranked and the calls made on it *)

MaxSlice == 4

MaxValues == 3

MaxLimit == 3

\* the limits a request can carry: the field is an int without a lower bound
Limits == (0 - 1)..MaxLimit

NotRanked == [called |-> FALSE, limit |-> 0, correlations |-> <<>>]

RankInit ==
    /\ slice = [total_count |-> 0, filter_count |-> 0]
    /\ value_rows = <<>>
    /\ ranking = NotRanked

\* the experiment holds total traces in the time range, matched traces of
\* them by the filter
CountTraces(total, matched) ==
    /\ matched <= total
    /\ slice' = [total_count |-> total, filter_count |-> matched]
    /\ value_rows' = <<>>
    /\ ranking' = NotRanked
    /\ UNCHANGED except_rank

\* the values query finds one more tag value; dim_count traces carry it, joint
\* of them among the filter's (none if the tag is gone by the second query)
TagValue(dim_count, joint) ==
    /\ Len(value_rows) < MaxValues
    /\ joint <= slice.filter_count
    /\ joint <= dim_count
    /\ dim_count - joint <= slice.total_count - slice.filter_count
    /\ value_rows' = Append(value_rows,
           [value |-> Len(value_rows) + 1, dim_count |-> dim_count, joint |-> joint])
    /\ ranking' = NotRanked
    /\ UNCHANGED <<slice, except_rank>>

RankCorrelations(limit) ==
    /\ ranking' = [called |-> TRUE, limit |-> limit,
                   correlations |-> get_correlations_for_filter(
                       slice.total_count, slice.filter_count, value_rows, limit)]
    /\ UNCHANGED <<slice, value_rows, except_rank>>

----------------------------------------------------------------------------
(* Dimension discovery: infer_data_type and discover_dimensions of
   mlflow/server/trace_insights/dimensions.py, with should_filter_tag. *)

\* Python's None among the texts of a sample
None == <<"NONE">>

\* the set boolean_values of infer_data_type
boolean_values ==
    { <<"t", "r", "u", "e">>, <<"f", "a", "l", "s", "e">>, <<"y", "e", "s">>, <<"n", "o">>, <<"1">>, <<"0">>, <<"t">>, <<"f">> }

\* one or more digits
IsDigits(s) == Len(s) > 0 /\ \A i \in 1..Len(s) : IsDigit(s[i])

\* digits with at most one point among them, and at least one digit
IsPointNumber(s) ==
    /\ \E i \in 1..Len(s) : IsDigit(s[i])
    /\ \A i \in 1..Len(s) : IsDigit(s[i]) \/ s[i] = "."
    /\ Cardinality({i \in 1..Len(s) : s[i] = "."}) <= 1

\* a lower-case text without sign is a number for float(): inf, infinity, nan,
\* or a point number with an optional exponent
IsFloatBody(s) ==
    \/ s \in { <<"i", "n", "f">>, <<"i", "n", "f", "i", "n", "i", "t", "y">>, <<"n", "a", "n">> }
    \/ IsPointNumber(s)
    \/ \E e \in 1..Len(s) :
          /\ s[e] = "e"
          /\ IsPointNumber(SubSeq(s, 1, e - 1))
          /\ IsDigits(Unsigned(SubSeq(s, e + 1, Len(s))))

\* float(v) returns for the text v (samples hold no digit-group underscores)
FloatParses(v) == IsFloatBody(Lower(Unsigned(Strip(v))))

\* infer_data_type(values)
infer_data_type(values) ==
    IF Len(values) = 0 THEN "string"
    ELSE IF \A i \in 1..Len(values) :
                values[i] # None => Lower(values[i]) \in boolean_values
    THEN "boolean"
    ELSE IF \A i \in 1..Len(values) :
                (values[i] # None /\ values[i] # <<>>) => FloatParses(values[i])
    THEN "numeric"
    ELSE "string"

\* sub in s
Contains(s, sub) ==
    \E i \in 1..(Len(s) - Len(sub) + 1) : SubSeq(s, i, i + Len(sub) - 1) = sub

\* should_filter_tag(tag_key)
should_filter_tag(tag_key) ==
    StartsWith(tag_key, <<"m", "l", "f", "l", "o", "w">>) \/ Contains(tag_key, <<"t", "a", "g", ".", "m", "l", "f", "l", "o", "w">>)

DimensionParameter(name, type, required) ==
    [name |-> name, type |-> type, required |-> required]

Dimension(name, type, dtype, parameters) ==
    [name |-> name, type |-> type, data_type |-> dtype, parameters |-> parameters]

\* the builtin_dimensions of discover_dimensions
builtin_dimensions ==
    << Dimension(<<"t", "r", "a", "c", "e", ".", "s", "t", "a", "t", "u", "s">>, "builtin", "string",
                 << DimensionParameter("value", "string", TRUE) >>),
       Dimension(<<"t", "r", "a", "c", "e", ".", "h", "a", "s", "_", "e", "r", "r", "o", "r">>, "builtin", "boolean", <<>>),
       Dimension(<<"t", "r", "a", "c", "e", ".", "l", "a", "t", "e", "n", "c", "y", "_", "b", "u", "c", "k", "e", "t">>, "builtin", "string",
                 << DimensionParameter("buckets", "array", FALSE) >>) >>

\* the tag values a store may hold, in the order its queries give them
TagValues == << <<"1">>, <<"a", "b", "c">> >>

\* the tag keys a store may hold, in the order the tag query gives them
TagKeys == << <<"e", "n", "v">>, <<"m", "l", "f", "l", "o", "w", ".", "u", "s", "e", "r">>, <<"x", ".", "t", "a", "g", ".", "m", "l", "f", "l", "o", "w", ".", "y">>, <<"x", "m", "l", "f", "l", "o", "w">> >>

\* the sample_values of a key among the rows
SampleOf(key, rows) ==
    LET held(v) == [key |-> key, value |-> v] \in rows
    IN SelectSeq(TagValues, held)

\* the Dimension appended to tag_dimensions for a key
TagDimension(key, dtype) ==
    Dimension(<<"t", "a", "g", ".">> \o key, "tag", dtype,
              << DimensionParameter("key", "string", TRUE),
                 DimensionParameter("value", dtype, TRUE) >>)

\* the tag_dimensions of discover_dimensions
tag_dimensions(rows) ==
    LET kept(key) == (\E r \in rows : r.key = key) /\ ~should_filter_tag(key)
        kept_keys == SelectSeq(TagKeys, kept)
    IN [i \in 1..Len(kept_keys) |->
          TagDimension(kept_keys[i], infer_data_type(SampleOf(kept_keys[i], rows)))]

\* discover_dimensions(store, experiment_ids, start_time, end_time) when
\* trace_count traces are in the experiments and the time range
discover_dimensions(trace_count, rows) ==
    IF trace_count = 0 THEN <<>>
    ELSE tag_dimensions(rows) \o builtin_dimensions

(* The samples and stores, and the calls made on them *)

MaxSample == 3

MaxScope == 2

\* what a tag can hold: nothing, the empty text, boolean tokens, numbers of
\* several forms, and a word
SampleValues ==
    { None, <<>>, <<"t", "r", "u", "e">>, <<"Y", "e", "s">>, <<"1">>, <<"1", ".", "5">>, <<"-", "2", "e", "3">>, <<"n", "a", "n">>, <<"a", "b", "c">> }

InferInit ==
    /\ sample = <<>>
    /\ data_type = ""

DiscoverInit ==
    /\ scope_traces = 0
    /\ tag_rows = {}
    /\ dimensions = [called |-> FALSE, list |-> <<>>]

\* the sample query gives one more value
SampleValue(v) ==
    /\ Len(sample) < MaxSample
    /\ sample' = Append(sample, v)
    /\ data_type' = ""
    /\ UNCHANGED except_infer

InferDataType ==
    /\ data_type' = infer_data_type(sample)
    /\ UNCHANGED <<sample, except_infer>>

\* one more trace is in the experiments and the time range
TraceInScope ==
    /\ scope_traces < MaxScope
    /\ scope_traces' = scope_traces + 1
    /\ dimensions' = [called |-> FALSE, list |-> <<>>]
    /\ UNCHANGED <<tag_rows, except_discover>>

\* a trace in scope is tagged
TagTrace(key, value) ==
    /\ scope_traces > 0
    /\ tag_rows' = tag_rows \cup {[key |-> key, value |-> value]}
    /\ dimensions' = [called |-> FALSE, list |-> <<>>]
    /\ UNCHANGED <<scope_traces, except_discover>>

DiscoverDimensions ==
    /\ dimensions' = [called |-> TRUE,
                      list |-> discover_dimensions(scope_traces, tag_rows)]
    /\ UNCHANGED <<scope_traces, tag_rows, except_discover>>

----------------------------------------------------------------------------
(* DatabricksSqlStore: the Spark session, table discovery and the choice
   between the direct SQL path and the REST implementation
   (mlflow/store/tracking/databricks_sql_store.py) *)

\* @lru_cache(maxsize=128) on _get_trace_table_for_experiment
maxsize == 128

\* A session object: stop() either stops it or raises and leaves it as it was.
Stopped(sess, held, stop_ok) ==
    [sess EXCEPT ![held] = IF stop_ok THEN "stopped" ELSE "stop_raised"]

SessionOutcome(held, sess, raised, created) ==
    [spark_session |-> held, sessions |-> sess, error |-> raised, created |-> created]

\* The variant of _create_new_spark_session that drops the held session unstopped.
create_without_stop(held, sess, stop_ok, create_ok) ==
    IF create_ok
    THEN SessionOutcome(Len(sess) + 1, Append(sess, "live"), "", TRUE)
    ELSE SessionOutcome(0, sess, "MlflowException", FALSE)

\* _create_new_spark_session: stop the held session, swallow what stop() raises,
\* then DatabricksSession.builder.serverless(True).getOrCreate()
create_new_spark_session(held, sess, stop_ok, create_ok) ==
    IF create_ok
    THEN SessionOutcome(Len(sess) + 1,
                        Append(IF held # 0 THEN Stopped(sess, held, stop_ok) ELSE sess, "live"),
                        "", TRUE)
    ELSE SessionOutcome(0, IF held # 0 THEN Stopped(sess, held, stop_ok) ELSE sess,
                        "MlflowException", FALSE)

\* _is_spark_session_healthy: SELECT 1 on the held session
is_spark_session_healthy(held, healthy) == held # 0 /\ healthy

\* _get_or_create_spark_session
get_or_create_spark_session(held, sess, healthy, stop_ok, create_ok) ==
    IF held = 0 \/ ~is_spark_session_healthy(held, healthy)
    THEN create_new_spark_session(held, sess, stop_ok, create_ok)
    ELSE SessionOutcome(held, sess, "", FALSE)

\* close_spark_session
close_spark_session(held, sess, stop_ok) ==
    IF held # 0
    THEN SessionOutcome(0, Stopped(sess, held, stop_ok), "", FALSE)
    ELSE SessionOutcome(held, sess, "", FALSE)

\* What the monitors API can answer for one experiment.
CatalogTable == <<"c", ".", "t">>
QuotedTable == <<Backtick, "c", Backtick, ".", Backtick, "t", Backtick>>
OnlyBackticks == <<Backtick, Backtick>>

Response(status, raises, monitors, table) ==
    [status |-> status, raises |-> raises, monitors |-> monitors, table |-> table]

Responses ==
    { Response(200, TRUE, 0, None),             \* requests.post raises
      Response(404, FALSE, 0, None),            \* a non-200 answer
      Response(200, FALSE, 0, None),            \* monitor_infos is empty
      Response(200, FALSE, 1, None),            \* a monitor without trace_archive_table
      Response(200, FALSE, 1, CatalogTable),
      Response(200, FALSE, 1, QuotedTable),
      Response(200, FALSE, 1, OnlyBackticks) }

\* str.replace("`", "")
RemoveBackticks(s) == SelectSeq(s, LAMBDA c : c # Backtick)

\* The body of _get_trace_table_for_experiment, for one answer of the API.
trace_table_of(resp) ==
    IF resp.raises THEN None
    ELSE IF resp.status # 200 THEN None
    ELSE IF resp.monitors > 0 /\ resp.table # None /\ resp.table # <<>>
         THEN RemoveBackticks(resp.table)
         ELSE None

\* functools.lru_cache: a hit returns the stored value and makes the key the most
\* recently used; a miss calls the function, stores what it returned (None
\* included) and evicts the least recently used key when the cache is full.
CacheKeys(cache) == { cache[i].key : i \in 1..Len(cache) }

CacheEntry(cache, key) == cache[CHOOSE i \in 1..Len(cache) : cache[i].key = key]

Without(cache, key) == SelectSeq(cache, LAMBDA e : e.key # key)

Lookup(cache, value, called) == [cache |-> cache, value |-> value, called |-> called]

\* The undecorated function: the API is called on every call.
uncached_trace_table(cache, key, resp) ==
    Lookup(cache, trace_table_of(resp), TRUE)

get_trace_table_for_experiment(cache, key, resp) ==
    IF key \in CacheKeys(cache)
    THEN Lookup(Append(Without(cache, key), CacheEntry(cache, key)),
                CacheEntry(cache, key).value, FALSE)
    ELSE Lookup(Append(IF Len(cache) >= maxsize THEN Tail(cache) ELSE cache,
                       [key |-> key, value |-> trace_table_of(resp)]),
                trace_table_of(resp), TRUE)

\* Python truthiness of Optional[str]: `if not table_name`
Truthy(table_name) == table_name # None /\ table_name # <<>>

\* What a routed call did: `path` is "sql", "rest" or "" (raised before either),
\* `rest_args` what the REST implementation received.
Routed(path, raised, rest_args, look, discovered, sess, asked) ==
    [path |-> path, error |-> raised, rest_args |-> rest_args,
     table_cache |-> look.cache, table_name |-> look.value,
     api_called |-> look.called, discovered |-> discovered,
     spark_session |-> sess.spark_session, sessions |-> sess.sessions,
     session_asked |-> asked, created |-> sess.created]

NoArgs == [experiment_ids |-> <<>>]

\* The head of both methods once the table name is known.
route_by_table(args, look, held, sess, healthy, stop_ok, create_ok) ==
    IF ~Truthy(look.value)
    THEN Routed("rest", "", args, look, TRUE, SessionOutcome(held, sess, "", FALSE), FALSE)
    ELSE Routed(IF get_or_create_spark_session(held, sess, healthy, stop_ok, create_ok).error = ""
                    THEN "sql" ELSE "",
                get_or_create_spark_session(held, sess, healthy, stop_ok, create_ok).error,
                NoArgs, look, TRUE,
                get_or_create_spark_session(held, sess, healthy, stop_ok, create_ok), TRUE)

\* The variant of search_traces that discovers the table of the first of several experiments.
search_first_experiment(args, cache, held, sess, resp, healthy, stop_ok, create_ok) ==
    IF args.sql_warehouse_id # None
    THEN Routed("", "NotImplementedError", NoArgs, Lookup(cache, None, FALSE), FALSE,
                SessionOutcome(held, sess, "", FALSE), FALSE)
    ELSE IF Len(args.experiment_ids) >= 1
    THEN route_by_table(args, get_trace_table_for_experiment(cache, args.experiment_ids[1], resp),
                        held, sess, healthy, stop_ok, create_ok)
    ELSE Routed("rest", "", args, Lookup(cache, None, FALSE), FALSE,
                SessionOutcome(held, sess, "", FALSE), FALSE)

\* search_traces, up to the point where the SQL query is built
search_traces(args, cache, held, sess, resp, healthy, stop_ok, create_ok) ==
    IF args.sql_warehouse_id # None
    THEN Routed("", "NotImplementedError", NoArgs, Lookup(cache, None, FALSE), FALSE,
                SessionOutcome(held, sess, "", FALSE), FALSE)
    ELSE IF Len(args.experiment_ids) = 1
    THEN route_by_table(args, get_trace_table_for_experiment(cache, args.experiment_ids[1], resp),
                        held, sess, healthy, stop_ok, create_ok)
    ELSE Routed("rest", "", args, Lookup(cache, None, FALSE), FALSE,
                SessionOutcome(held, sess, "", FALSE), FALSE)

\* calculate_trace_filter_correlation of the store, up to the same point
store_trace_filter_correlation(args, cache, held, sess, resp, healthy, stop_ok, create_ok) ==
    IF Len(args.experiment_ids) # 1
    THEN Routed("rest", "", args, Lookup(cache, None, FALSE), FALSE,
                SessionOutcome(held, sess, "", FALSE), FALSE)
    ELSE route_by_table(args, get_trace_table_for_experiment(cache, args.experiment_ids[1], resp),
                        held, sess, healthy, stop_ok, create_ok)

RouteResponses ==
    { Response(404, FALSE, 0, None), Response(200, FALSE, 1, QuotedTable),
      Response(200, FALSE, 1, OnlyBackticks) }

(* Bounds and inputs *)

MaxSessions == 2

ExperimentIds == {"1", "2", "3"}

ExperimentIdLists == { <<>>, <<"1">>, <<"1", "2">> }

WarehouseIds == { None, <<"w">> }

FilterStrings == { <<"a">>, <<"b">> }

SearchArgs(ids, filter, warehouse) ==
    [experiment_ids |-> ids, filter_string |-> filter, sql_warehouse_id |-> warehouse]

CorrelationArgs(ids, filter1, filter2) ==
    [experiment_ids |-> ids, filter_string1 |-> filter1, filter_string2 |-> filter2]

NoStoreCall == [name |-> "", args |-> NoArgs, held |-> 0, healthy |-> FALSE]

NoStoreResult ==
    Routed("", "", NoArgs, Lookup(<<>>, None, FALSE), FALSE, SessionOutcome(0, <<>>, "", FALSE), FALSE)

StoreInit ==
    /\ spark_session = 0
    /\ sessions = <<>>
    /\ table_cache = <<>>
    /\ api_calls = [e \in ExperimentIds |-> 0]
    /\ store_call = NoStoreCall
    /\ store_result = NoStoreResult

StoreCall(name, args, healthy) ==
    [name |-> name, args |-> args, held |-> spark_session, healthy |-> healthy]

\* A call that touches only the session.
SessionCall(name, healthy, r) ==
    /\ Len(r.sessions) <= MaxSessions
    /\ spark_session' = r.spark_session
    /\ sessions' = r.sessions
    /\ store_call' = StoreCall(name, NoArgs, healthy)
    /\ store_result' = Routed("", r.error, NoArgs, Lookup(table_cache, None, FALSE), FALSE, r,
                              name = "_get_or_create_spark_session")
    /\ UNCHANGED <<table_cache, api_calls>>

GetOrCreateSparkSession(healthy, stop_ok, create_ok) ==
    /\ SessionCall("_get_or_create_spark_session", healthy,
                   get_or_create_spark_session(spark_session, sessions, healthy, stop_ok, create_ok))
    /\ UNCHANGED except_store

RestartSparkSession(stop_ok, create_ok) ==
    /\ SessionCall("restart_spark_session", FALSE,
                   create_new_spark_session(spark_session, sessions, stop_ok, create_ok))
    /\ UNCHANGED except_store

CloseSparkSession(stop_ok) ==
    /\ spark_session # 0
    /\ SessionCall("close_spark_session", FALSE,
                   close_spark_session(spark_session, sessions, stop_ok))
    /\ UNCHANGED except_store

\* A call that goes through table discovery.
Counted(calls, ids, r) ==
    IF r.api_called THEN [calls EXCEPT ![ids[1]] = @ + 1] ELSE calls

RoutedCall(name, args, healthy, r) ==
    /\ Len(r.sessions) <= MaxSessions
    /\ spark_session' = r.spark_session
    /\ sessions' = r.sessions
    /\ table_cache' = r.table_cache
    /\ api_calls' = Counted(api_calls, args.experiment_ids, r)
    /\ store_call' = StoreCall(name, args, healthy)
    /\ store_result' = r

GetTraceTableForExperiment(id, resp) ==
    /\ RoutedCall("_get_trace_table_for_experiment", [experiment_ids |-> <<id>>, response |-> resp], FALSE,
                  Routed("", "", NoArgs, get_trace_table_for_experiment(table_cache, id, resp),
                         TRUE, SessionOutcome(spark_session, sessions, "", FALSE), FALSE))
    /\ UNCHANGED except_store

SearchTraces(ids, filter, warehouse, resp, healthy, stop_ok, create_ok) ==
    /\ RoutedCall("search_traces", SearchArgs(ids, filter, warehouse), healthy,
                  search_traces(SearchArgs(ids, filter, warehouse), table_cache,
                                spark_session, sessions, resp, healthy, stop_ok, create_ok))
    /\ UNCHANGED except_store

StoreTraceFilterCorrelation(ids, filter1, filter2, resp, healthy, stop_ok, create_ok) ==
    /\ RoutedCall("calculate_trace_filter_correlation", CorrelationArgs(ids, filter1, filter2), healthy,
                  store_trace_filter_correlation(CorrelationArgs(ids, filter1, filter2), table_cache,
                                spark_session, sessions, resp, healthy, stop_ok, create_ok))
    /\ UNCHANGED except_store

----------------------------------------------------------------------------
(* The specifications *)

Init ==
    /\ ParserInit /\ BucketInit /\ CorrelationInit /\ RankInit /\ InferInit /\ DiscoverInit
    /\ StoreInit

Next ==
    \/ NewParser
    \/ \E w \in WrittenFilters : Parse(w)
    \/ Collect

Spec == Init /\ [][Next]_vars


BucketNext ==
    \/ \E b \in TimeBuckets : ValidateTimeBucket(b)
    \/ \E b \in TimeBuckets : GetBucketSizeMs(b)
    \/ \E ts \in Timestamps, b \in TimeBuckets, o \in Offsets : GetTimeBucketValue(ts, b, o)
    \/ \E b \in TimeBuckets, o \in Offsets : GetTimeBucketExpression(b, o)
    \/ \E b \in TimeBuckets, o \in Offsets : DatabricksTimeBucketExpression(b, o)

BucketSpec == Init /\ [][BucketNext]_vars

CorrelationNext ==
    \/ \E k \in TraceKinds : LogTrace(k)
    \/ \E rows \in BOOLEAN, ansi \in BOOLEAN : CalculateTraceFilterCorrelation(rows, ansi)
    \/ CalculateNpmiScore
    \/ GetCorrelationsForFilter
    \/ \E score \in Scores : GetCorrelationStrength(score)

CorrelationSpec == Init /\ [][CorrelationNext]_vars

RankNext ==
    \/ \E total \in 0..MaxSlice, matched \in 0..MaxSlice : CountTraces(total, matched)
    \/ \E dim_count \in 1..MaxSlice, joint \in 0..MaxSlice : TagValue(dim_count, joint)
    \/ \E limit \in Limits : RankCorrelations(limit)

RankSpec == Init /\ [][RankNext]_vars

InferNext ==
    \/ \E v \in SampleValues : SampleValue(v)
    \/ InferDataType

InferSpec == Init /\ [][InferNext]_vars

DiscoverNext ==
    \/ TraceInScope
    \/ \E k \in 1..Len(TagKeys), v \in 1..Len(TagValues) : TagTrace(TagKeys[k], TagValues[v])
    \/ DiscoverDimensions

DiscoverSpec == Init /\ [][DiscoverNext]_vars

CacheNext ==
    \E id \in ExperimentIds, resp \in Responses : GetTraceTableForExperiment(id, resp)

CacheSpec == Init /\ [][CacheNext]_vars

StoreNext ==
    \/ \E healthy \in BOOLEAN, stop_ok \in BOOLEAN, create_ok \in BOOLEAN :
           GetOrCreateSparkSession(healthy, stop_ok, create_ok)
    \/ \E stop_ok \in BOOLEAN, create_ok \in BOOLEAN : RestartSparkSession(stop_ok, create_ok)
    \/ \E stop_ok \in BOOLEAN : CloseSparkSession(stop_ok)
    \/ \E ids \in ExperimentIdLists, filter \in FilterStrings, warehouse \in WarehouseIds,
          resp \in RouteResponses, healthy \in BOOLEAN, stop_ok \in BOOLEAN, create_ok \in BOOLEAN :
           SearchTraces(ids, filter, warehouse, resp, healthy, stop_ok, create_ok)
    \/ \E ids \in ExperimentIdLists, filter \in FilterStrings,
          resp \in RouteResponses, healthy \in BOOLEAN, stop_ok \in BOOLEAN, create_ok \in BOOLEAN :
           StoreTraceFilterCorrelation(ids, filter, <<"b">>, resp, healthy, stop_ok, create_ok)

StoreSpec == Init /\ [][StoreNext]_vars


----------------------------------------------------------------------------
(* What a written filter says, for stating the properties of parse *)

Returned == pc = "returned"

\* parse was called with one comparison clause
OneComparison == Returned /\ Len(written) = 1 /\ written[1].kind = "cmp"

\* every quote of the clause's right-hand side is closed and so is its list
WellFormedValue(v) == v.closed /\ \A i \in 1..Len(v.lits) : v.lits[i].open = v.lits[i].close

WellFormed(c) ==
    /\ WellFormedValue(c.value)
    /\ \A i \in 1..Len(c.inner) : WellFormedValue(c.inner[i].value)

IsNumberText(body) == IsIntText(body) \/ IsFloatText(body)

\* the type of a literal as written: quoted text and bare words are strings
LiteralType(l) ==
    IF l.open # "" THEN "string"
    ELSE IF Lower(l.body) \in { <<"t", "r", "u", "e">>, <<"f", "a", "l", "s", "e">> } THEN "boolean"
    ELSE IF IsNumberText(l.body) THEN "number"
    ELSE "string"

IsIntegerLiteral(l) ==
    l.open = "" /\ l.body # <<>> /\ \A i \in 1..Len(l.body) : IsDigit(l.body[i])

RecognisedPrefixes == { <<"t", "a", "g", "s", ".">>, <<"m", "e", "t", "a", "d", "a", "t", "a", ".">>, <<"f", "e", "e", "d", "b", "a", "c", "k", ".">>, <<"s", "p", "a", "n", ".">>, <<"c", "o", "u", "n", "t", "(">> }

KnownField(f) ==
    f \in VALID_ATTRIBUTE_KEYS \/ \E p \in RecognisedPrefixes : StartsWith(f, p)

\* a direct attribute: a known name that is mapped to neither a tag nor metadata
DirectAttribute(f) == f \in NumericFields \cup StringFields

\* the same written filter with the body of every quoted literal replaced
OtherLiteral(l) ==
    IF l.open # "" /\ l.open = l.close THEN [l EXCEPT !.body = <<"z", "z">>] ELSE l

OtherValue(v) == [v EXCEPT !.lits = [i \in 1..Len(v.lits) |-> OtherLiteral(v.lits[i])]]

OtherClause(c) ==
    [c EXCEPT !.value = OtherValue(c.value),
              !.inner = [i \in 1..Len(c.inner) |->
                           [c.inner[i] EXCEPT !.value = OtherValue(c.inner[i].value)]]]

OtherLiterals(w) == [i \in 1..Len(w) |-> OtherClause(w[i])]

\* the parameters the literals of a comparison call for: one per scalar, one per
\* element of a list on a direct attribute
LiteralCount(c) == IF c.value.list THEN Len(c.value.lits) ELSE 1

ClauseLiteralCount(c) ==
    IF c.kind = "count"
    THEN (IF c.inner = <<>> THEN 0 ELSE LiteralCount(c.inner[1])) + 1
    ELSE LiteralCount(c)

RECURSIVE FilterLiteralCount(_)
FilterLiteralCount(w) ==
    IF w = <<>> THEN 0 ELSE ClauseLiteralCount(Head(w)) + FilterLiteralCount(Tail(w))

\* the clauses whose parameter count is fixed: scalars, and lists on direct attributes
CountsLiterals(c) ==
    /\ WellFormed(c)
    /\ c.kind = "cmp" => (c.value.list => DirectAttribute(c.field))
    /\ \A i \in 1..Len(c.inner) : c.inner[i].value.list => DirectAttribute(c.inner[i].field)

FeedbackOperators(type) ==
    CASE type = "boolean" -> TAG_OPERATORS
      [] type = "number" -> NUMERIC_OPERATORS
      [] type = "string" -> STRING_OPERATORS

\* unterminated quote, unclosed list, or a bare word where a number is required
Malformed(c) ==
    \/ ~WellFormedValue(c.value)
    \/ /\ c.field \in NumericFields
       /\ ~c.value.list
       /\ c.value.lits[1].open = ""
       /\ ~IsNumberText(c.value.lits[1].body)

----------------------------------------------------------------------------
(* Properties of parse *)

\* C1: the literal values of an accepted filter appear only in the parameter map:
\* on fresh parsers a filter and the same filter with other quoted literal values
\* (same fields, operators and list lengths), both accepted, give identical
\* condition lists
LiteralsOnlyInParams ==
    (Returned /\ error = "" /\ first_param = 0
       /\ ParseFilter(FilterText(OtherLiterals(written)), 0).error = "")
    => conditions = ParseFilter(FilterText(OtherLiterals(written)), 0).conditions

\* C1: parse("status='a=b'") on a fresh parser returns a condition that holds
\* part of the literal
LiteralInConditionText ==
    /\ Returned /\ first_param = 0
    /\ written = <<Cmp(<<"s", "t", "a", "t", "u", "s">>, FilterOperator.EQ, TRUE, Scalar(Quoted(<<"a", "=", "b">>)))>>
    /\ filter_string = <<"s", "t", "a", "t", "u", "s", "=", "'", "a", "=", "b", "'">>
    /\ conditions = << <<"s", "t", "a", "t", "u", "s", "=", "'", "a", " ", "=", " ", ":", "p", "a", "r", "a", "m", "_", "0">> >>

\* C2: an accepted filter binds exactly one parameter per literal: one per scalar
\* condition, one per element of an IN / NOT IN list on an attribute field, and for
\* a count expression the inner condition's parameters plus one
OneParamPerLiteral ==
    (Returned /\ error = "" /\ \A i \in 1..Len(written) : CountsLiterals(written[i]))
    => Cardinality(DOMAIN params) = FilterLiteralCount(written)

\* C2: parse("request_id IN ('x,y', 'c')") binds three parameters for a list of
\* two elements
CommaLiteralSplit ==
    /\ Returned /\ error = ""
    /\ written = <<Cmp(<<"r", "e", "q", "u", "e", "s", "t", "_", "i", "d">>, FilterOperator.IN_, FALSE,
                       ListOf(<<Quoted(<<"x", ",", "y">>), Quoted(<<"c">>)>>))>>
    /\ Cardinality(DOMAIN params) = 3

\* C3: parse splits only at the keyword AND at depth zero outside quotes: the parts
\* of a filter written as well-formed clauses joined by AND are exactly those
\* clauses in order, and an accepted filter has one condition per clause
SplitOnlyAtKeyword ==
    (Returned /\ \A i \in 1..Len(written) : WellFormed(written[i]))
    => /\ SplitByAnd(filter_string) = [i \in 1..Len(written) |-> ClauseText(written[i])]
       /\ error = "" => Len(conditions) = Len(written)

\* C3: parse("status = ANDROID") splits inside the word ANDROID and raises
SplitInsideWord ==
    /\ Returned /\ error = "Invalid filter condition"
    /\ filter_string = <<"s", "t", "a", "t", "u", "s", " ", "=", " ", "A", "N", "D", "R", "O", "I", "D">>
    /\ SplitByAnd(filter_string) = << <<"s", "t", "a", "t", "u", "s", " ", "=">>, <<"R", "O", "I", "D">> >>

\* C4: a clause whose left-hand side is neither a known attribute name nor starts
\* with a recognised prefix is rejected with an error and produces no condition
UnknownFieldRejected ==
    (OneComparison /\ ~KnownField(written[1].field))
    => (error # "" /\ conditions = <<>>)

\* C4: parse("foo = 5") returns a condition on the unknown field foo
UnknownFieldAccepted ==
    /\ Returned /\ error = "" /\ first_param = 0
    /\ filter_string = <<"f", "o", "o", " ", "=", " ", "5">>
    /\ conditions = << <<"f", "o", "o", " ", "=", " ", ":", "p", "a", "r", "a", "m", "_", "0">> >>

\* C5: a tags.<key> clause that parse accepts has the operator = or !=, every other
\* operator raises; a clause on the alias name that parse accepts has one of =, !=,
\* LIKE, ILIKE, IN, NOT IN, the ordering operators raise
TagOperatorsOnly ==
    (OneComparison /\ error = "")
    => /\ StartsWith(written[1].field, <<"t", "a", "g", "s", ".">>) => written[1].op \in TAG_OPERATORS
       /\ written[1].field = <<"n", "a", "m", "e">> => written[1].op \in STRING_OPERATORS

\* C5: parse("tags.env>=5") returns an equality on the tag key env>
TagRangeAccepted ==
    /\ Returned /\ error = "" /\ first_param = 0
    /\ written = <<Cmp(<<"t", "a", "g", "s", ".", "e", "n", "v">>, FilterOperator.GTE, TRUE, Scalar(Bare(<<"5">>)))>>
    /\ filter_string = <<"t", "a", "g", "s", ".", "e", "n", "v", ">", "=", "5">>
    /\ conditions = << <<"t", "a", "g", "s", "[", "'", "e", "n", "v", ">", "'", "]", " ", "=", " ", ":", "p", "a", "r", "a", "m", "_", "0">> >>

\* C6: an accepted clause on a numeric/time attribute field has one of =, !=, >, >=,
\* <, <= (LIKE, ILIKE, IN, NOT IN raise) and an accepted clause on the string fields
\* status and request_id has one of =, !=, LIKE, ILIKE, IN, NOT IN (>, >=, <, <= raise)
AttributeOperatorsByType ==
    (OneComparison /\ error = "")
    => /\ written[1].field \in NumericFields => written[1].op \in NUMERIC_OPERATORS
       /\ written[1].field \in StringFields => written[1].op \in STRING_OPERATORS

\* C6: parse("status > 'OK'") returns an ordering comparison on a string field
StringFieldOrdered ==
    /\ Returned /\ error = "" /\ first_param = 0
    /\ filter_string = <<"s", "t", "a", "t", "u", "s", " ", ">", " ", "'", "O", "K", "'">>
    /\ conditions = << <<"s", "t", "a", "t", "e", " ", ">", " ", ":", "p", "a", "r", "a", "m", "_", "0">> >>

\* C7: an accepted feedback.<key> clause has an operator that suits the type of its
\* value: = and != for a boolean; =, !=, >, >=, <, <= for a number; =, !=, LIKE,
\* ILIKE, IN, NOT IN for a string; every other combination raises
FeedbackOperatorsByValueType ==
    (OneComparison /\ error = "" /\ WellFormed(written[1])
       /\ StartsWith(written[1].field, <<"f", "e", "e", "d", "b", "a", "c", "k", ".">>))
    => written[1].op \in FeedbackOperators(LiteralType(written[1].value.lits[1]))

\* C7: parse("feedback.score > true") returns an ordering comparison with a boolean
FeedbackBooleanOrdered ==
    /\ Returned /\ error = "" /\ first_param = 0
    /\ filter_string = <<"f", "e", "e", "d", "b", "a", "c", "k", ".", "s", "c", "o", "r", "e", " ", ">", " ", "t", "r", "u", "e">>
    /\ Len(conditions) = 1
    /\ params[GetParamName(0)] = BoolV(TRUE)

\* C8: an accepted clause on span.type or span.status has one of =, !=, IN, NOT IN;
\* >, >=, <, <=, LIKE and ILIKE raise
SpanTypeStatusOperators ==
    (OneComparison /\ error = "" /\ written[1].field \in { <<"s", "p", "a", "n", ".", "t", "y", "p", "e">>, <<"s", "p", "a", "n", ".", "s", "t", "a", "t", "u", "s">> })
    => written[1].op \in {FilterOperator.EQ, FilterOperator.NEQ, FilterOperator.IN_,
                          FilterOperator.NOT_IN}

\* C8: parse("span.type LIKE 'OK'") returns a condition
SpanTypePattern ==
    /\ Returned /\ error = ""
    /\ filter_string = <<"s", "p", "a", "n", ".", "t", "y", "p", "e", " ", "L", "I", "K", "E", " ", "'", "O", "K", "'">>
    /\ Len(conditions) = 1

\* C9: a count expression is accepted only with a numeric comparison operator, an
\* integer literal on the right and an inner clause that is itself valid
CountNeedsIntegerThreshold ==
    (Returned /\ Len(written) = 1 /\ written[1].kind = "count" /\ error = "")
    => /\ written[1].op \in NUMERIC_OPERATORS
       /\ IsIntegerLiteral(written[1].value.lits[1])
       /\ \A i \in 1..Len(written[1].inner) :
            ParseFilter(CmpText(written[1].inner[i]), 0).error = ""

\* C9: parse("count(span.type = 'LLM') > 2.5") returns a condition whose threshold
\* is a float
CountFloatThreshold ==
    /\ Returned /\ error = "" /\ first_param = 0
    /\ filter_string = <<"c", "o", "u", "n", "t", "(", "s", "p", "a", "n", ".", "t", "y", "p", "e", " ", "=", " ", "'", "L", "L", "M", "'", ")", " ", ">", " ", "2", ".", "5">>
    /\ Len(conditions) = 1
    /\ params[GetParamName(1)] = FloatV(<<"2", ".", "5">>)

\* C10: a clause with a malformed literal (unterminated quote, unbalanced
\* parenthesis, bare non-numeric word on a numeric field) is rejected with an error
\* and binds no parameter
MalformedLiteralRejected ==
    (OneComparison /\ Malformed(written[1]))
    => (error # "" /\ params = EmptyParams)

\* C10: parse("status = 'OK") returns a condition and binds the text 'OK
UnterminatedQuoteAccepted ==
    /\ Returned /\ error = "" /\ first_param = 0
    /\ filter_string = <<"s", "t", "a", "t", "u", "s", " ", "=", " ", "'", "O", "K">>
    /\ conditions = << <<"s", "t", "a", "t", "e", " ", "=", " ", ":", "p", "a", "r", "a", "m", "_", "0">> >>
    /\ params[GetParamName(0)] = StrV(<<"'", "O", "K">>)

\* C11: a clause on span.content with an operator other than LIKE and ILIKE raises
\* (so an accepted one has LIKE or ILIKE), and the rejected clause returns no
\* condition, binds no parameter and takes no parameter name
SpanContentPatternOnly ==
    (OneComparison /\ written[1].field = <<"s", "p", "a", "n", ".", "c", "o", "n", "t", "e", "n", "t">>
       /\ written[1].op \notin {FilterOperator.LIKE, FilterOperator.ILIKE})
    => /\ error # ""
       /\ conditions = <<>>
       /\ params = EmptyParams
       /\ param_counter = first_param

\* C11: parse("span.content = 'OK'") has raised the span.content operator error
SpanContentEqualityRejected ==
    /\ Returned
    /\ filter_string = <<"s", "p", "a", "n", ".", "c", "o", "n", "t", "e", "n", "t", " ", "=", " ", "'", "O", "K", "'">>
    /\ error = "span.content only supports LIKE/ILIKE operators"
    /\ params = EmptyParams

\* the value a written right-hand side stands for: each literal parsed on its own
WrittenValue(v) ==
    IF v.list
    THEN ListV([i \in 1..Len(v.lits) |-> ParseSingleValue(LiteralText(v.lits[i]))])
    ELSE ParseSingleValue(LiteralText(v.lits[1]))

\* the condition and parameters of the written triple (field, operator, value)
WrittenComparison(c, counter) ==
    GenerateCondition(c.field, c.op, WrittenValue(c.value), counter)

WrittenClause(c, counter) ==
    IF c.kind = "count"
    THEN CountCondition(IF c.inner = <<>> THEN ReturnsNone(counter)
                        ELSE WrittenComparison(c.inner[1], counter),
                        c.op, WrittenValue(c.value))
    ELSE WrittenComparison(c, counter)

RECURSIVE WrittenConditions(_, _, _, _)

WrittenNext(w, i, r, conds) ==
    WrittenConditions(w, i + 1, r.counter, [sql |-> Append(conds.sql, r.sql),
                                          params |-> Update(conds.params, r.params)])

\* the conditions and parameters of the written clauses from the i-th on
WrittenConditions(w, i, counter, conds) ==
    IF i > Len(w) THEN conds
    ELSE WrittenNext(w, i, WrittenClause(w[i], counter), conds)

WrittenResult(w, counter) ==
    WrittenConditions(w, 1, counter, [sql |-> <<>>, params |-> EmptyParams])

\* C12: round trip: the conditions and bound values of an accepted filter are, clause
\* by clause, those of the written field (after the alias mapping), the written
\* operator and the parsed literal value; no clause is dropped, merged or given
\* another operator
RoundTrip ==
    (Returned /\ error = "" /\ \A i \in 1..Len(written) : WellFormed(written[i]))
    => /\ conditions = WrittenResult(written, first_param).sql
       /\ params = WrittenResult(written, first_param).params

\* C12: parse("execution_time>=5") returns an equality on the field execution_time>
TightOperatorMisread ==
    /\ Returned /\ error = "" /\ first_param = 0
    /\ written = <<Cmp(<<"e", "x", "e", "c", "u", "t", "i", "o", "n", "_", "t", "i", "m", "e">>, FilterOperator.GTE, TRUE, Scalar(Bare(<<"5">>)))>>
    /\ filter_string = <<"e", "x", "e", "c", "u", "t", "i", "o", "n", "_", "t", "i", "m", "e", ">", "=", "5">>
    /\ conditions = << <<"e", "x", "e", "c", "u", "t", "i", "o", "n", "_", "t", "i", "m", "e", ">", " ", "=", " ", ":", "p", "a", "r", "a", "m", "_", "0">> >>

(* Time bucketing *)

WeekStartsMonday ==
    (bucket_call = "get_time_bucket_value" /\ time_bucket = "week")
    => /\ bucket_error = ""
       /\ (bucket_result.n + offset_ms) % DayMs = 0
       /\ ((bucket_result.n + offset_ms) \div DayMs + 3) % 7 = 0

\* the week of the epoch starts at the epoch, a Thursday
WeekStartsThursday ==
    /\ bucket_call = "get_time_bucket_value"
    /\ time_bucket = "week"
    /\ timestamp_ms = 0
    /\ offset_ms = 0
    /\ bucket_error = ""
    /\ bucket_result.n = 0

\* C15: every bucketing function raises for a granularity other than hour, day
\* and week, returning nothing computed for another granularity, and
\* validate_time_bucket returns a valid granularity as it was given
UnsupportedBucketRejected ==
    /\ (bucket_call # "" /\ time_bucket \notin SupportedBuckets)
          => (bucket_error # "" /\ bucket_result = NoValue)
    /\ (bucket_call = "validate_time_bucket" /\ time_bucket \in SupportedBuckets)
          => (bucket_error = "" /\ bucket_result.s = time_bucket)

\* the Databricks store truncates to the hour when asked for months
MonthBucketedByHour ==
    /\ bucket_call = "_get_time_bucket_expression"
    /\ time_bucket = "month"
    /\ bucket_error = ""
    /\ bucket_result.s = "hour"

(* Correlation *)

\* the strength that goes with the result: the one it carries, or the
\* classification of its npmi where the result type carries none
StrengthOf(r) ==
    IF r.strength # "" THEN r.strength ELSE get_correlation_strength(r.npmi)

\* the last call made again with these counts
Correlate(total, count1, count2, joint) ==
    IF corr_call.path = "calculate_trace_filter_correlation"
    THEN calculate_trace_filter_correlation(total, count1, count2, joint,
                                            corr_call.rows, corr_call.ansi)
    ELSE IF corr_call.path = "calculate_npmi_score"
    THEN calculate_npmi_score(total, count1, count2, joint)
    ELSE correlation_entry(total, count1, count2, joint)

\* C16: when no trace matches both predicates and each predicate matches some
\* trace, every correlation function gives npmi -1.0, of strength Strong
NoOverlapIsMinusOne ==
    (corr_call.path \in CorrelationPaths /\ traces.both = 0
        /\ Count1(traces) > 0 /\ Count2(traces) > 0)
    => /\ corr_result.present
       /\ corr_result.npmi = Literal(0 - 1)
       /\ StrengthOf(corr_result) = "Strong"

\* calculate_npmi_score gives 0.0 and None for two traces that match one
\* predicate each
NoOverlapScoredZero ==
    /\ corr_call.path = "calculate_npmi_score"
    /\ traces = [both |-> 0, only1 |-> 1, only2 |-> 1, neither |-> 0]
    /\ corr_result.present
    /\ corr_result.npmi = Literal(0)
    /\ corr_result.strength = "None"

\* C17: on a store without traces no correlation function raises, and those
\* that give one result give npmi 0.0, strength None and four counts of 0
EmptyStoreIsZero ==
    (corr_call.path \in CorrelationPaths /\ TotalCount(traces) = 0)
    => /\ corr_result.error = ""
       /\ corr_call.path # "get_correlations_for_filter"
            => /\ corr_result.present
               /\ corr_result.npmi = Literal(0)
               /\ StrengthOf(corr_result) = "None"
               /\ corr_result.total = 0 /\ corr_result.count1 = 0
               /\ corr_result.count2 = 0 /\ corr_result.joint = 0

\* the query gives its one row on an empty table, whose npmi column is -1.0
EmptyRowScoredMinusOne ==
    /\ corr_call = [path |-> "calculate_trace_filter_correlation",
                    rows |-> TRUE, ansi |-> FALSE]
    /\ TotalCount(traces) = 0
    /\ corr_result.present
    /\ corr_result.total = 0
    /\ corr_result.npmi = Literal(0 - 1)

\* C18: when both predicates match the same traces, and at least one, every
\* correlation function gives npmi exactly 1.0, whatever else the store holds
CoincidenceIsOne ==
    (corr_call.path \in CorrelationPaths /\ traces.both > 0
        /\ traces.only1 = 0 /\ traces.only2 = 0)
    => /\ corr_result.present
       /\ corr_result.npmi = Literal(1)

\* two of three traces match both predicates: calculate_npmi_score gives
\* 0.9999999999999999
CoincidenceBelowOne ==
    /\ corr_call.path = "calculate_npmi_score"
    /\ traces = [both |-> 2, only1 |-> 0, only2 |-> 0, neither |-> 1]
    /\ corr_result.present
    /\ corr_result.npmi.num = corr_result.npmi.den
    /\ corr_result.npmi.ulps = 0 - 1

\* the store of ten traces, six matched by both predicates and a seventh by
\* the second only
SixOfSeven ==
    /\ corr_call.path \in CorrelationPaths
    /\ traces = [both |-> 6, only1 |-> 0, only2 |-> 1, neither |-> 3]

\* C19 as stated: for total 10, counts 6 and 7 and joint 6 the npmi is
\* strictly between 0.6 and 0.8 and its strength is Strong
SixOfSevenIsStrong ==
    SixOfSeven
    => /\ corr_result.present
       /\ 6 * corr_result.npmi.den < 10 * corr_result.npmi.num
       /\ 10 * corr_result.npmi.num < 8 * corr_result.npmi.den
       /\ StrengthOf(corr_result) = "Strong"

\* C19: for total 10, counts 6 and 7 and joint 6 the npmi is strictly between
\* 0.6 and 0.7, and so its strength is Moderate
SixOfSevenIsModerate ==
    SixOfSeven
    => /\ corr_result.present
       /\ 6 * corr_result.npmi.den < 10 * corr_result.npmi.num
       /\ 10 * corr_result.npmi.num < 7 * corr_result.npmi.den
       /\ StrengthOf(corr_result) = "Moderate"

\* calculate_npmi_score on that store: ln(10/7) / ln(10/6), about 0.698
SixOfSevenScored ==
    /\ SixOfSeven
    /\ corr_call.path = "calculate_npmi_score"
    /\ corr_result.npmi = Float(356675, 510826, 0)
    /\ corr_result.strength = "Moderate"

\* C20: a correlation function called with its two predicates exchanged
\* gives the same npmi, strength, total and joint count, and the two
\* predicates' counts exchanged
Symmetric ==
    corr_call.path \in CorrelationPaths
    => Correlate(TotalCount(traces), Count2(traces), Count1(traces), traces.both)
         = [corr_result EXCEPT !.count1 = corr_result.count2,
                               !.count2 = corr_result.count1]

\* three traces match the first predicate and one of them the second
UnequalPredicatesScored ==
    /\ corr_call.path = "calculate_npmi_score"
    /\ traces = [both |-> 1, only1 |-> 2, only2 |-> 0, neither |-> 1]
    /\ corr_result.count1 = 3
    /\ corr_result.count2 = 1
    /\ corr_result.npmi = Float(LnMicro[4] - LnMicro[3], LnMicro[4], 0)

\* C21: the counts of a correlation are ordered, 0 <= joint <= each
\* predicate's count <= total, its npmi is between -1 and 1, and when joint > 0
\* joint^2 <= count1 * count2 <= total^2 and the npmi is at least 0 exactly
\* when joint * total >= count1 * count2
CountsOrderedNpmiBounded ==
    (corr_call.path \in CorrelationPaths /\ corr_result.present)
    => /\ 0 <= corr_result.joint
       /\ corr_result.joint <= corr_result.count1
       /\ corr_result.joint <= corr_result.count2
       /\ corr_result.count1 <= corr_result.total
       /\ corr_result.count2 <= corr_result.total
       /\ \/ Abs(corr_result.npmi.num) < corr_result.npmi.den
          \/ /\ Abs(corr_result.npmi.num) = corr_result.npmi.den
             /\ corr_result.npmi.ulps * corr_result.npmi.num <= 0
       /\ corr_result.joint > 0
            => /\ corr_result.joint * corr_result.joint
                    <= corr_result.count1 * corr_result.count2
               /\ corr_result.count1 * corr_result.count2
                    <= corr_result.total * corr_result.total
               /\ (corr_result.npmi.num >= 0)
                    <=> (corr_result.joint * corr_result.total
                            >= corr_result.count1 * corr_result.count2)

\* five of eight traces match both predicates and the others neither:
\* calculate_npmi_score gives 1.0000000000000002
NpmiAboveOne ==
    /\ corr_call.path = "calculate_npmi_score"
    /\ traces = [both |-> 5, only1 |-> 0, only2 |-> 0, neither |-> 3]
    /\ corr_result.present
    /\ corr_result.npmi.num = corr_result.npmi.den
    /\ corr_result.npmi.ulps = 2

\* C22: get_correlation_strength gives None for abs(npmi) < 0.1, Weak from
\* 0.1 to below 0.4, Moderate from 0.4 to below 0.7 and Strong from 0.7 on,
\* and the same for a score and its negative
StrengthByThresholds ==
    corr_call.path = "get_correlation_strength"
    => /\ corr_result.strength =
            CHOOSE s \in {"None", "Weak", "Moderate", "Strong"} :
                /\ s = "None" <=> Abs(corr_result.npmi.num) < 10
                /\ s = "Weak" <=> (10 <= Abs(corr_result.npmi.num)
                                     /\ Abs(corr_result.npmi.num) < 40)
                /\ s = "Moderate" <=> (40 <= Abs(corr_result.npmi.num)
                                         /\ Abs(corr_result.npmi.num) < 70)
                /\ s = "Strong" <=> 70 <= Abs(corr_result.npmi.num)
       /\ corr_result.npmi.den = 100
       /\ get_correlation_strength(
              [corr_result.npmi EXCEPT !.num = 0 - corr_result.npmi.num])
            = corr_result.strength

\* -0.7 is Strong
MinusSeventyIsStrong ==
    /\ corr_call.path = "get_correlation_strength"
    /\ corr_result.npmi = Float(0 - 70, 100, 0)
    /\ corr_result.strength = "Strong"

(* Ranking *)

\* C23: the list get_correlations_for_filter returns holds only values with a
\* joint count above 0, is in order of non-increasing abs(npmi) with equal
\* scores in discovery order, and is no longer than limit
RankedWithinLimit ==
    ranking.called
    => /\ \A i \in 1..Len(ranking.correlations) :
            ranking.correlations[i].score.joint > 0
       /\ \A i, j \in 1..Len(ranking.correlations) :
            i < j => /\ ~AbsLess(ranking.correlations[i].score.npmi,
                                 ranking.correlations[j].score.npmi)
                     /\ ~AbsLess(ranking.correlations[j].score.npmi,
                                 ranking.correlations[i].score.npmi)
                          => ranking.correlations[i].value
                                < ranking.correlations[j].value
       /\ Len(ranking.correlations) <= ranking.limit

\* asked for at most -1 of three correlations, it returns two
NegativeLimitDropsLast ==
    /\ ranking.called
    /\ ranking.limit = 0 - 1
    /\ slice = [total_count |-> 4, filter_count |-> 2]
    /\ Len(value_rows) = 3
    /\ \A i \in 1..3 : value_rows[i].joint > 0
    /\ Len(ranking.correlations) = 2

(* Dimension discovery *)

\* C24: infer_data_type gives string for an empty sample; otherwise boolean
\* exactly when every value that is not None is a boolean token, whatever its
\* case; otherwise numeric exactly when every value that is not None parses
\* as a float, the empty text being a value that does not; otherwise string
FirstRuleDecides ==
    data_type # ""
    => data_type =
         IF sample = <<>> THEN "string"
         ELSE IF \A i \in 1..Len(sample) :
                    sample[i] # None => Lower(sample[i]) \in boolean_values
         THEN "boolean"
         ELSE IF \A i \in 1..Len(sample) :
                    sample[i] # None => FloatParses(sample[i])
         THEN "numeric"
         ELSE "string"

\* an empty text beside a number leaves the sample numeric
EmptyTextIsNumeric ==
    /\ sample = << <<>>, <<"1", ".", "5">> >>
    /\ data_type = "numeric"

\* C25: discover_dimensions returns, for any traces in scope or none, the
\* built-in dimensions trace.status (string), trace.has_error (boolean) and
\* trace.latency_bucket (string, with an optional buckets parameter), and one
\* tag dimension for each tag key observed that neither starts with mlflow nor
\* contains tag.mlflow, and none for any other key
BuiltinsAndOpenTags ==
    dimensions.called
    => /\ \E i \in 1..Len(dimensions.list) :
            dimensions.list[i] = Dimension(<<"t", "r", "a", "c", "e", ".", "s", "t", "a", "t", "u", "s">>, "builtin", "string",
                << DimensionParameter("value", "string", TRUE) >>)
       /\ \E i \in 1..Len(dimensions.list) :
            dimensions.list[i] = Dimension(<<"t", "r", "a", "c", "e", ".", "h", "a", "s", "_", "e", "r", "r", "o", "r">>, "builtin", "boolean", <<>>)
       /\ \E i \in 1..Len(dimensions.list) :
            dimensions.list[i] = Dimension(<<"t", "r", "a", "c", "e", ".", "l", "a", "t", "e", "n", "c", "y", "_", "b", "u", "c", "k", "e", "t">>, "builtin", "string",
                << DimensionParameter("buckets", "array", FALSE) >>)
       /\ \A k \in 1..Len(TagKeys) :
            Cardinality({i \in 1..Len(dimensions.list) :
                            /\ dimensions.list[i].type = "tag"
                            /\ dimensions.list[i].name = <<"t", "a", "g", ".">> \o TagKeys[k]})
              = IF /\ \E r \in tag_rows : r.key = TagKeys[k]
                   /\ ~StartsWith(TagKeys[k], <<"m", "l", "f", "l", "o", "w">>)
                   /\ ~Contains(TagKeys[k], <<"t", "a", "g", ".", "m", "l", "f", "l", "o", "w">>)
                THEN 1 ELSE 0
       /\ Len(dimensions.list) = 3 + Cardinality({i \in 1..Len(dimensions.list) :
                                                     dimensions.list[i].type = "tag"})

\* without a trace in scope nothing is returned
NoTraceNoDimension ==
    /\ dimensions.called
    /\ scope_traces = 0
    /\ dimensions.list = <<>>

(* C26: across any sequence of _get_trace_table_for_experiment calls on one store
   (fewer than 128 distinct experiment ids), the monitors API is called at most
   once for each experiment id, a value once stored for an id is what every
   later call for that id returns, and a call never raises: when the request
   raises, the answer is not 200, there is no monitor or the monitor has no
   trace_archive_table the call returns None, and a table name that is found
   is returned without its backticks. *)
TableCall == store_call.name = "_get_trace_table_for_experiment"

AnsweredTable(resp) ==
    /\ ~resp.raises /\ resp.status = 200 /\ resp.monitors > 0 /\ resp.table # None

TableLookedUpOnce ==
    /\ [](/\ \A id \in ExperimentIds : api_calls[id] <= 1
          /\ TableCall =>
               /\ store_result.error = ""
               /\ \E i \in 1..Len(table_cache) :
                      /\ table_cache[i].key = store_call.args.experiment_ids[1]
                      /\ table_cache[i].value = store_result.table_name
               /\ \A i \in 1..Len(store_result.table_name) :
                      store_result.table_name[i] # Backtick
               /\ (store_result.api_called /\ ~AnsweredTable(store_call.args.response))
                      => store_result.table_name = None
               /\ (store_result.api_called /\ AnsweredTable(store_call.args.response))
                      => store_result.table_name = RemoveBackticks(store_call.args.response.table))
    /\ [][\A i \in 1..Len(table_cache) : \E j \in 1..Len(table_cache') :
              table_cache'[j] = table_cache[i]]_vars

\* A later call for an experiment returns the table found by the first call,
\* although the API would now answer 404.
CachedTableReturned ==
    /\ TableCall
    /\ ~store_result.api_called
    /\ store_call.args.response.status = 404
    /\ store_result.table_name = CatalogTable
    /\ api_calls[store_call.args.experiment_ids[1]] = 1

(* C27: search_traces and calculate_trace_filter_correlation take the direct SQL
   path only when exactly one experiment id is given and table discovery
   returns a table name; with no or several experiment ids, or when discovery
   returns no table name, they hand the caller's arguments unchanged to the
   REST implementation and ask for no Spark session; with several experiment
   ids they do not call table discovery; search_traces with a sql_warehouse_id
   raises NotImplementedError before any discovery or query. *)
RoutedStoreCall ==
    store_call.name \in {"search_traces", "calculate_trace_filter_correlation"}

WithWarehouse ==
    /\ store_call.name = "search_traces"
    /\ store_call.args.sql_warehouse_id # None

GetOrCreateCall == store_call.name = "_get_or_create_spark_session"

Replaced == store_result.created /\ store_call.held # 0

OneSessionStopCalledFirst ==
    /\ spark_session \in 0..Len(sessions)
    /\ spark_session # 0 => sessions[spark_session] = "live"
    /\ \A i \in 1..Len(sessions) : i # spark_session => sessions[i] # "live"
    /\ Replaced => sessions[store_call.held] \in {"stopped", "stop_raised"}
    /\ GetOrCreateCall =>
         /\ store_result.created => (store_call.held = 0 \/ ~store_call.healthy)
         /\ (store_call.held # 0 /\ store_call.healthy) =>
                /\ spark_session = store_call.held
                /\ store_result.error = ""
         /\ (store_call.held = 0 \/ ~store_call.healthy) =>
                \/ store_result.created /\ spark_session = Len(sessions)
                \/ store_result.error = "MlflowException"
    /\ store_result.error = "MlflowException" => spark_session = 0 /\ ~store_result.created

\* The statement as written: the session replaced is stopped.
ReplacedSessionStopped ==
    Replaced => sessions[store_call.held] = "stopped"

\* An unhealthy session is replaced although its stop() raised.
ReplacedAfterStopRaised ==
    /\ GetOrCreateCall
    /\ Replaced
    /\ ~store_call.healthy
    /\ sessions[store_call.held] = "stop_raised"
    /\ spark_session = Len(sessions)

(* The parser again *)

ParamNamed(i) == <<"p", "a", "r", "a", "m", "_">> \o Decimal(i)

(* C29: over any sequence of parse calls on one TraceFilterParser, raising
   calls included, param_counter never decreases and every name in the
   parameter map of a call was issued during that call, param_<i> with i from
   the counter at the start of the call up to the counter at its end, so no
   name is issued twice and the maps of different calls have disjoint keys;
   a fresh parser starts issuing at param_0. *)
ParamNamesNeverReissued ==
    /\ param_counter = 0
    /\ [](Returned =>
            \A k \in DOMAIN params :
                \E i \in first_param..(param_counter - 1) : k = ParamNamed(i))
    /\ [][/\ pc' = "returned" => (param_counter' >= param_counter /\ first_param' = param_counter)
          /\ pc = "returned" => param_counter' = param_counter
          /\ (pc = "idle" /\ pc' = "idle") => param_counter' = 0]_vars

\* The second call on a parser raises at its second clause and leaves the name
\* issued for its first clause used up.
RaisedAfterIssuingNames ==
    /\ Returned
    /\ error # ""
    /\ first_param > 0
    /\ param_counter > first_param
    /\ Len(written) = 2

(* C30: for a clause <field><op><value> with a known field, written with or
   without whitespace around the operator, the field and operator that the
   pattern of _parse_condition extracts are the ones written. *)
ExtractedAsWritten(c, m) ==
    /\ m.matched
    /\ StripChars(m.g1, {Backtick, "\""}) = c.field
    /\ m.op = c.op

FieldAndOperatorAsWritten ==
    (OneComparison /\ KnownField(written[1].field))
    => ExtractedAsWritten(written[1], ConditionMatch(Strip(filter_string)))

\* status!='OK' is read as the field status! with the operator =
StatusNotEqualMisread ==
    /\ OneComparison
    /\ written[1].field = <<"s", "t", "a", "t", "u", "s">>
    /\ written[1].op = FilterOperator.NEQ
    /\ filter_string = <<"s", "t", "a", "t", "u", "s", "!", "=", "'", "O", "K", "'">>
    /\ ConditionMatch(filter_string).g1 = <<"s", "t", "a", "t", "u", "s", "!">>
    /\ ConditionMatch(filter_string).op = FilterOperator.EQ
====
